---- MODULE Spec2Model ----
(***************************************************************************)
(* Room inventory and reservation consistency of HotelSeaShore-Server.     *)
(*                                                                         *)
(* The Reservation Ledger (controllers/bookingController.js over           *)
(* models/Booking.js) and the Inventory Tree Aggregate                     *)
(* (controllers/hotelController.js over the Hotel schema) are modelled as  *)
(* state machines over the two MongoDB collections.  A request handler is  *)
(* one action in the non-interleaved specifications; in SpecRace each      *)
(* await of createBooking is a step of its own.                            *)
(*                                                                         *)
(* JavaScript values: a field that is absent from a request body (or       *)
(* falsy) is 0 for ids and dates, "" for strings and Undef for amounts.    *)
(* Dates are day numbers.                                                  *)
(***************************************************************************)
EXTENDS Integers, Sequences, FiniteSets, TLC

VARIABLES
    bookings,   \* the Booking collection: a set of documents
    nextId,     \* the next ObjectId the driver hands out (insertion order)
    today,      \* the day new Date() falls on
    resp,       \* the answer to the last booking request
    inflight,   \* SpecRace: the createBooking calls in progress
    seenAtCheck, \* SpecRace: for each stored booking, the ids its overlap check saw
    saving,     \* SpecHotelRace: the addCategory / addRoom calls in progress
    hotels,     \* the Hotel collection: a set of documents
    nextOid,    \* the next ObjectId for a category or room
    hotelSeq,   \* the counter of the hotelID sequence
    hresp,      \* the answer to the last hotel request
    orders,     \* the restaurant Order collection: a set of documents
    east,       \* the server's time zone is ahead of UTC
    oresp       \* the answer to the last order request

vars == <<bookings, nextId, today, resp, inflight, seenAtCheck, saving, hotels, nextOid, hotelSeq, hresp, orders, east, oresp>>
ledgerVars == <<bookings, nextId, today, resp, inflight, seenAtCheck, saving>>
raceVars == <<inflight, seenAtCheck, saving>>
hotelVars == <<hotels, nextOid, hotelSeq, hresp>>
orderVars == <<orders, east, oresp>>

-----------------------------------------------------------------------------
(* Bounds of the model                                                     *)

MaxBookings == 2        \* documents ever inserted into the Booking collection
MaxDay == 3             \* check-in and check-out days range over 1..MaxDay

Undef == -1             \* an amount that is undefined
Cancelled == 255

Days == 1 .. MaxDay
Guests == {"Ann"}
Clients == {1, 2}

NoBookingNo == [prefix |-> 0, serial |-> 0]
NoDetails == [bookingNo |-> NoBookingNo, checkInDate |-> 0, checkOutDate |-> 0,
              guestName |-> ""]
NoOrderResp == [op |-> "none", status |-> 0, orderNumber |-> [date |-> 0, n |-> 0]]
NoStats == [totalBookings |-> 0, totalRevenue |-> 0, totalAdvancePayment |-> 0,
            totalDuePayment |-> 0, todayBookings |-> 0, todayRevenue |-> 0,
            averageBill |-> 0, statusBreakdown |-> <<>>]
NoResp == [op |-> "none", status |-> 0, id |-> 0, details |-> NoDetails, steps |-> <<>>,
           stats |-> NoStats]

NoRequest == [hotelID |-> 0, roomNumberID |-> "", roomCategoryID |-> "",
              checkInDate |-> 0, checkOutDate |-> 0, fullName |-> "",
              totalBill |-> Undef, advancePayment |-> Undef, duePayment |-> Undef,
              reference |-> NoBookingNo]
Idle == [pc |-> "idle", req |-> NoRequest, seen |-> {}, serialNo |-> 0,
         bookingNo |-> NoBookingNo]

NoHotel == [hotelID |-> 0, hotelName |-> "", roomCategories |-> <<>>, images |-> <<>>,
            totalRooms |-> 0, availableRooms |-> 0]
NotSaving == [pc |-> "idle", op |-> "none", loaded |-> NoHotel, doc |-> NoHotel,
              at |-> 0, oid |-> 0, done |-> {}, stale |-> {}]

Max(a, b) == IF a >= b THEN a ELSE b

-----------------------------------------------------------------------------
(* models/Booking.js                                                       *)

\* The object a custom validator sees as `this` when it runs as an update
\* validator (findByIdAndUpdate with runValidators): the query, which has
\* none of the document's fields.
QueryThis == [checkInDate |-> 0, totalBill |-> Undef]

\* BookingSchema.checkOutDate.validate: value > this.checkInDate
\* (a comparison with undefined is false).
checkOutDateValidator(value, self) ==
    /\ self.checkInDate # 0
    /\ value > self.checkInDate

\* BookingSchema.advancePayment.validate: value <= this.totalBill
advancePaymentValidator(value, self) ==
    /\ self.totalBill # Undef
    /\ value <= self.totalBill

\* Document validation on Booking.create: required paths, min: 0 and the two
\* custom validators, with `this` the document.
ValidateDocument(doc) ==
    /\ doc.hotelID # 0 /\ doc.roomNumberID # "" /\ doc.roomCategoryID # ""
    /\ doc.checkInDate # 0 /\ doc.checkOutDate # 0
    /\ checkOutDateValidator(doc.checkOutDate, doc)
    /\ doc.totalBill # Undef /\ doc.totalBill >= 0
    /\ doc.advancePayment # Undef /\ doc.advancePayment >= 0
    /\ advancePaymentValidator(doc.advancePayment, doc)
    /\ doc.duePayment # Undef /\ doc.duePayment >= 0
    /\ doc.fullName # ""

\* BookingSchema.pre("save"): on a new document totalBill and advancePayment
\* are modified paths.
PreSaveBooking(doc) ==
    [doc EXCEPT !.duePayment = Max(0, doc.totalBill - doc.advancePayment)]

\* The unique indexes on bookingNo and serialNo.
\* A collection whose only unique index is the one on bookingNo.
DuplicateKeyBookingNoOnly(store, doc) ==
    \E b \in store : b.bookingNo = doc.bookingNo

DuplicateKey(store, doc) ==
    \E b \in store : b.bookingNo = doc.bookingNo \/ b.serialNo = doc.serialNo

-----------------------------------------------------------------------------
(* controllers/bookingController.js: helpers                               *)

\* OverlapFilter with the bounds of the interval included: a stay that ends on
\* the day another begins counts as a collision.
OverlapFilterClosed(b, hotelID, roomNumberID, roomCategoryID, checkInDate, checkOutDate, excludeBookingId) ==
    /\ b.hotelID = hotelID
    /\ b.roomNumberID = roomNumberID
    /\ b.roomCategoryID = roomCategoryID
    /\ b.statusID # 255
    /\ b.checkInDate <= checkOutDate
    /\ b.checkOutDate >= checkInDate
    /\ (excludeBookingId # 0 => b._id # excludeBookingId)

\* OverlapFilter that only finds a stored stay beginning inside the new one.
OverlapFilterStartInside(b, hotelID, roomNumberID, roomCategoryID, checkInDate, checkOutDate, excludeBookingId) ==
    /\ b.hotelID = hotelID
    /\ b.roomNumberID = roomNumberID
    /\ b.roomCategoryID = roomCategoryID
    /\ b.statusID # 255
    /\ b.checkInDate < checkOutDate
    /\ b.checkInDate >= checkInDate
    /\ (excludeBookingId # 0 => b._id # excludeBookingId)

\* OverlapFilter without the exclusion of the booking being updated.
OverlapFilterNoExclude(b, hotelID, roomNumberID, roomCategoryID, checkInDate, checkOutDate, excludeBookingId) ==
    /\ b.hotelID = hotelID
    /\ b.roomNumberID = roomNumberID
    /\ b.roomCategoryID = roomCategoryID
    /\ b.statusID # 255
    /\ b.checkInDate < checkOutDate
    /\ b.checkOutDate > checkInDate

\* The filter of checkBookingOverlap and the documents it matches.
OverlapFilter(b, hotelID, roomNumberID, roomCategoryID, checkInDate, checkOutDate, excludeBookingId) ==
    /\ b.hotelID = hotelID
    /\ b.roomNumberID = roomNumberID
    /\ b.roomCategoryID = roomCategoryID
    /\ b.statusID # Cancelled
    /\ b.checkInDate < checkOutDate
    /\ b.checkOutDate > checkInDate
    /\ (excludeBookingId # 0 => b._id # excludeBookingId)

\* checkBookingOverlap: Booking.findOne(filter) answers one of the matching
\* documents, or null (the empty set here) when there is none.
checkBookingOverlap(store, hotelID, roomNumberID, roomCategoryID, checkInDate, checkOutDate, excludeBookingId) ==
    {b \in store : OverlapFilter(b, hotelID, roomNumberID, roomCategoryID,
                                 checkInDate, checkOutDate, excludeBookingId)}

\* generateSerialNo: the serialNo of the last inserted booking plus one.
generateSerialNo(store) ==
    IF store = {} THEN 1
    ELSE LET lastBooking == CHOOSE b \in store : \A o \in store : o._id <= b._id
         IN  lastBooking.serialNo + 1

\* generateBookingNo: the date prefix and one more than the largest number read
\* from the last two digits of the booking numbers with that prefix.
generateBookingNo(store, day) ==
    LET serials == {b.bookingNo.serial % 100 : b \in {o \in store : o.bookingNo.prefix = day}}
        maxSerialNo == IF serials = {} THEN 0
                       ELSE CHOOSE s \in serials : \A t \in serials : t <= s
    IN  [prefix |-> day, serial |-> maxSerialNo + 1]

\* The bookingNo createBooking settles on: the referenced booking's when the
\* reference names a stored bookingNo, a generated one otherwise.
ChooseBookingNo(store, day, reference) ==
    IF reference # NoBookingNo /\ \E b \in store : b.bookingNo = reference
    THEN reference
    ELSE generateBookingNo(store, day)

\* details.existingBooking of the 409 answer.
ConflictDetails(overlappingBooking) ==
    [bookingNo |-> overlappingBooking.bookingNo,
     checkInDate |-> overlappingBooking.checkInDate,
     checkOutDate |-> overlappingBooking.checkOutDate,
     guestName |-> overlappingBooking.fullName]

\* The document Booking.create builds from the body, the numbers and the
\* schema defaults.
NewBooking(id, req, bookingNo, serialNo, day) ==
    [_id |-> id,
     hotelID |-> req.hotelID, roomNumberID |-> req.roomNumberID,
     roomCategoryID |-> req.roomCategoryID,
     checkInDate |-> req.checkInDate, checkOutDate |-> req.checkOutDate,
     fullName |-> req.fullName,
     totalBill |-> req.totalBill, advancePayment |-> req.advancePayment,
     duePayment |-> req.duePayment,
     bookingNo |-> bookingNo, serialNo |-> serialNo,
     statusID |-> 1, canceledBy |-> "", reason |-> "", createdAt |-> day]

RequiredForOverlap(req) ==
    /\ req.hotelID # 0 /\ req.roomNumberID # "" /\ req.roomCategoryID # ""

DatesPresent(req) == req.checkInDate # 0 /\ req.checkOutDate # 0

-----------------------------------------------------------------------------
(* Initial state                                                           *)

Init ==
    /\ bookings = {}
    /\ nextId = 1
    /\ today = 1
    /\ resp = NoResp
    /\ inflight = [c \in Clients |-> Idle]
    /\ seenAtCheck = [id \in {} |-> {}]
    /\ saving = [c \in Clients |-> NotSaving]
    /\ hotels = {}
    /\ nextOid = 1
    /\ hotelSeq = 0
    /\ hresp = [op |-> "none", status |-> 0, totalRooms |-> Undef, steps |-> <<>>]
    /\ orders = {}
    /\ east = FALSE
    /\ oresp = NoOrderResp

-----------------------------------------------------------------------------
(* controllers/bookingController.js: request handlers                      *)

\* What a handler does that the outside can see, in the order it does it.
Step(kind, event, room, status) == [step |-> kind, event |-> event, room |-> room, status |-> status]

\* The tail of every handler of bookingController.js: after the awaited
\* write the success response; the controller holds no emit call.
LedgerSteps(status) ==
    IF status \in {200, 201}
    THEN <<Step("write", "", 0, 0), Step("respond", "", 0, status)>>
    ELSE <<Step("respond", "", 0, status)>>

Answer(op, status, id, details) ==
    [op |-> op, status |-> status, id |-> id, details |-> details,
     steps |-> LedgerSteps(status), stats |-> NoStats]

\* What a handler does to the collection and what it answers.
Outcome(status, details, store) ==
    [status |-> status, details |-> details, bookings |-> store]

\* createBooking, POST /api/bookings, run without interleaving on the
\* collection `store`; `id` is the ObjectId of the new document.
createBooking(store, id, day, req) ==
    IF ~RequiredForOverlap(req) \/ ~DatesPresent(req)
    THEN {Outcome(400, NoDetails, store)}
    ELSE LET matches == checkBookingOverlap(store, req.hotelID, req.roomNumberID,
                            req.roomCategoryID, req.checkInDate, req.checkOutDate, 0)
             serialNo == generateSerialNo(store)
             bookingNo == ChooseBookingNo(store, day, req.reference)
             doc == NewBooking(id, req, bookingNo, serialNo, day)
         IN  IF matches # {}
             THEN {Outcome(409, ConflictDetails(overlappingBooking), store) :
                       overlappingBooking \in matches}
             ELSE IF ~ValidateDocument(doc) \/ DuplicateKey(store, doc)
             THEN {Outcome(400, NoDetails, store)}
             ELSE {Outcome(200, NoDetails, store \cup {PreSaveBooking(doc)})}

\* createBooking that also takes a room of the hotel out of availableRooms.
CreateBookingMarkingRoom(req) ==
    /\ UNCHANGED <<orderVars, today, raceVars, nextOid, hotelSeq, hresp>>
    /\ \E out \in createBooking(bookings, nextId, today, req) :
          /\ out.status = 200 => nextId <= MaxBookings
          /\ bookings' = out.bookings
          /\ nextId' = IF out.status = 200 THEN nextId + 1 ELSE nextId
          /\ hotels' = IF out.status # 200 THEN hotels
                       ELSE {IF h.hotelID = req.hotelID
                             THEN [h EXCEPT !.availableRooms = @ - 1] ELSE h : h \in hotels}
          /\ resp' = Answer("create", out.status,
                            IF out.status = 200 THEN nextId ELSE 0, out.details)

CreateBooking(req) ==
    /\ UNCHANGED <<orderVars, today, raceVars, hotelVars>>
    /\ \E out \in createBooking(bookings, nextId, today, req) :
          /\ out.status = 200 => nextId <= MaxBookings
          /\ bookings' = out.bookings
          /\ nextId' = IF out.status = 200 THEN nextId + 1 ELSE nextId
          /\ resp' = Answer("create", out.status,
                            IF out.status = 200 THEN nextId ELSE 0, out.details)

\* The update validators findByIdAndUpdate runs (runValidators: true): only
\* the paths the body sets are validated, and `this` is the query.
ValidateUpdate(data) ==
    /\ (data.checkOutDate # 0 => checkOutDateValidator(data.checkOutDate, QueryThis))
    /\ (data.totalBill # Undef => data.totalBill >= 0)
    /\ (data.advancePayment # Undef =>
            /\ data.advancePayment >= 0
            /\ advancePaymentValidator(data.advancePayment, QueryThis))
    /\ (data.duePayment # Undef => data.duePayment >= 0)
    /\ (data.statusID # 0 => data.statusID \in {1, 2, 3, Cancelled})

\* a || b on the values of one field.
\* OrElseNum that keeps the stored value.
OrElseNumStored(a, b) == b

OrElseNum(a, b) == IF a # 0 THEN a ELSE b
OrElseStr(a, b) == IF a # "" THEN a ELSE b

\* The $set findByIdAndUpdate applies: every field of the body replaces the
\* stored one; no save hook runs.
ApplyUpdate(b, data) ==
    [b EXCEPT !.checkInDate = OrElseNum(data.checkInDate, @),
              !.checkOutDate = OrElseNum(data.checkOutDate, @),
              !.hotelID = OrElseNum(data.hotelID, @),
              !.roomNumberID = OrElseStr(data.roomNumberID, @),
              !.roomCategoryID = OrElseStr(data.roomCategoryID, @),
              !.statusID = OrElseNum(data.statusID, @),
              !.totalBill = IF data.totalBill # Undef THEN data.totalBill ELSE @,
              !.advancePayment = IF data.advancePayment # Undef THEN data.advancePayment ELSE @,
              !.duePayment = IF data.duePayment # Undef THEN data.duePayment ELSE @]

\* updateBooking, PUT /api/bookings/:id.
updateBooking(store, id, data) ==
    IF ~\E b \in store : b._id = id
    THEN {Outcome(404, NoDetails, store)}
    ELSE LET existingBooking == CHOOSE b \in store : b._id = id
             datesChanged == data.checkInDate # 0 \/ data.checkOutDate # 0
             roomChanged == data.hotelID # 0 \/ data.roomNumberID # ""
                                \/ data.roomCategoryID # ""
             hotelID == OrElseNum(data.hotelID, existingBooking.hotelID)
             roomNumberID == OrElseStr(data.roomNumberID, existingBooking.roomNumberID)
             roomCategoryID == OrElseStr(data.roomCategoryID, existingBooking.roomCategoryID)
             checkInDate == OrElseNum(data.checkInDate, existingBooking.checkInDate)
             checkOutDate == OrElseNum(data.checkOutDate, existingBooking.checkOutDate)
             matches == IF datesChanged \/ roomChanged
                        THEN checkBookingOverlap(store, hotelID, roomNumberID,
                                 roomCategoryID, checkInDate, checkOutDate, id)
                        ELSE {}
         IN  IF (datesChanged \/ roomChanged) /\ (checkInDate = 0 \/ checkOutDate = 0)
             THEN {Outcome(400, NoDetails, store)}
             ELSE IF matches # {}
             THEN {Outcome(409, ConflictDetails(overlappingBooking), store) :
                       overlappingBooking \in matches}
             ELSE IF ~ValidateUpdate(data)
             THEN {Outcome(400, NoDetails, store)}
             ELSE {Outcome(200, NoDetails,
                           (store \ {existingBooking})
                               \cup {ApplyUpdate(existingBooking, data)})}

UpdateBooking(id, data) ==
    /\ UNCHANGED <<orderVars, today, raceVars, nextId, hotelVars>>
    /\ \E out \in updateBooking(bookings, id, data) :
          /\ bookings' = out.bookings
          /\ resp' = Answer("update", out.status, id, out.details)

\* updateStatusID that removes the row instead of marking it.
updateStatusIDRemoving(store, id, canceledBy, reason) ==
    IF ~\E b \in store : b._id = id
    THEN Outcome(404, NoDetails, store)
    ELSE Outcome(200, NoDetails, {b \in store : b._id # id})

\* updateStatusID, PUT /api/bookings/soft/:id: the soft delete.
updateStatusID(store, id, canceledBy, reason) ==
    IF ~\E b \in store : b._id = id
    THEN Outcome(404, NoDetails, store)
    ELSE LET booking == CHOOSE b \in store : b._id = id
         IN  Outcome(200, NoDetails,
                     (store \ {booking}) \cup
                         {[booking EXCEPT !.statusID = Cancelled,
                                          !.canceledBy = canceledBy,
                                          !.reason = reason]})

CancelBooking(id, canceledBy, reason) ==
    /\ UNCHANGED <<orderVars, today, raceVars, nextId, hotelVars>>
    /\ LET out == updateStatusID(bookings, id, canceledBy, reason)
       IN  /\ bookings' = out.bookings
           /\ resp' = Answer("cancel", out.status, id, out.details)

\* deleteBooking, DELETE /api/bookings/:id.
deleteBooking(store, id) ==
    IF ~\E b \in store : b._id = id
    THEN Outcome(404, NoDetails, store)
    ELSE Outcome(200, NoDetails, {b \in store : b._id # id})

HardDelete(id) ==
    /\ UNCHANGED <<orderVars, today, raceVars, nextId, hotelVars>>
    /\ LET out == deleteBooking(bookings, id)
       IN  /\ bookings' = out.bookings
           /\ resp' = Answer("delete", out.status, id, out.details)

\* booking.<field> || 0, summed over the bookings found.
RECURSIVE SumOf(_, _)
SumOf(found, field) ==
    IF found = {} THEN 0
    ELSE LET booking == CHOOSE b \in found : TRUE
         IN  (IF booking[field] = Undef THEN 0 ELSE booking[field])
             + SumOf(found \ {booking}, field)

\* The query of GET /api/bookings/stats: hotelID 0 and statusID Undef stand
\* for an absent parameter, startDate and endDate 0 for an absent date.
StatsQuery(hotelID, statusID, startDate, endDate) ==
    [hotelID |-> hotelID, statusID |-> statusID, startDate |-> startDate,
     endDate |-> endDate]

\* The filter of getBookingStats: it starts as statusID $ne 255, and a
\* statusID parameter replaces that condition. The dates are parsed to the
\* midnights of their days, createdAt is an instant inside its day.
StatsFilter(query, b) ==
    /\ IF query.statusID # Undef THEN b.statusID = query.statusID
                                 ELSE b.statusID # 255
    /\ (query.hotelID # 0 => b.hotelID = query.hotelID)
    /\ (query.startDate # 0 /\ query.endDate # 0
            => b.createdAt >= query.startDate /\ b.createdAt < query.endDate)

\* Math.round(x * 100) / 100 of a quotient, in hundredths.
RoundedQuotient(sum, n) == (200 * sum + n) \div (2 * n)

\* getBookingStats, GET /api/bookings/stats: the statistics of the answer.
getBookingStats(store, day, query) ==
    LET found == {b \in store : StatsFilter(query, b)}
        todays == {b \in found : b.createdAt = day}
        keys == {(IF b.statusID = 0 THEN 1 ELSE b.statusID) : b \in found}
    IN  [totalBookings |-> Cardinality(found),
         totalRevenue |-> SumOf(found, "totalBill"),
         totalAdvancePayment |-> SumOf(found, "advancePayment"),
         totalDuePayment |-> SumOf(found, "duePayment"),
         todayBookings |-> Cardinality(todays),
         todayRevenue |-> SumOf(todays, "totalBill"),
         averageBill |-> IF found = {} THEN 0
                         ELSE RoundedQuotient(SumOf(found, "totalBill"),
                                              Cardinality(found)),
         statusBreakdown |->
             [k \in keys |->
                 Cardinality({b \in found :
                                 (IF b.statusID = 0 THEN 1 ELSE b.statusID) = k})]]

GetBookingStats(query) ==
    /\ UNCHANGED <<orderVars, today, raceVars, nextId, hotelVars, bookings>>
    /\ resp' = [Answer("stats", 200, 0, NoDetails)
                   EXCEPT !.steps = <<Step("respond", "", 0, 200)>>,
                          !.stats = getBookingStats(bookings, today, query)]


-----------------------------------------------------------------------------
(* The requests the specifications draw from                               *)

BookingIds == 1 .. MaxBookings

NoUpdate == [checkInDate |-> 0, checkOutDate |-> 0, hotelID |-> 0, roomNumberID |-> "",
             roomCategoryID |-> "", statusID |-> 0, totalBill |-> Undef,
             advancePayment |-> Undef, duePayment |-> Undef]

\* The rooms requests name: one room and the three that differ from it in
\* the hotel, the room or the category.
Rooms ==
    {[hotelID |-> 1, roomNumberID |-> "r1", roomCategoryID |-> "c1"],
     [hotelID |-> 2, roomNumberID |-> "r1", roomCategoryID |-> "c1"],
     [hotelID |-> 1, roomNumberID |-> "r2", roomCategoryID |-> "c1"],
     [hotelID |-> 1, roomNumberID |-> "r1", roomCategoryID |-> "c2"]}

CreateRequest(room, checkInDate, checkOutDate, fullName, totalBill, advancePayment, duePayment, reference) ==
    [hotelID |-> room.hotelID, roomNumberID |-> room.roomNumberID,
     roomCategoryID |-> room.roomCategoryID,
     checkInDate |-> checkInDate, checkOutDate |-> checkOutDate, fullName |-> fullName,
     totalBill |-> totalBill, advancePayment |-> advancePayment,
     duePayment |-> duePayment, reference |-> reference]

\* SpecLedger: rooms, dates and status vary, the bill is fixed.  A request
\* without a hotelID and one without a check-out date stand for the bodies
\* that lack a required field.
LedgerCreates ==
    {CreateRequest(room, ci, co, g, 2, 1, 1, ref) :
        room \in Rooms, ci \in Days, co \in Days, g \in Guests,
        ref \in {NoBookingNo, [prefix |-> 1, serial |-> 1]}}
    \cup {[CreateRequest(room, 1, 2, g, 2, 1, 1, NoBookingNo) EXCEPT !.hotelID = 0] :
            room \in {r \in Rooms : r.hotelID = 2}, g \in Guests}
    \cup {CreateRequest(room, 1, 0, g, 2, 1, 1, NoBookingNo) :
            room \in {r \in Rooms : r.hotelID = 2}, g \in Guests}

LedgerUpdates ==
    {[NoUpdate EXCEPT !.checkInDate = ci, !.checkOutDate = co] :
        ci \in Days \cup {0}, co \in Days \cup {0}}
    \cup {[NoUpdate EXCEPT !.hotelID = room.hotelID, !.roomNumberID = room.roomNumberID,
                           !.roomCategoryID = room.roomCategoryID, !.checkInDate = ci] :
            room \in Rooms, ci \in {0, 2}}
    \cup {[NoUpdate EXCEPT !.statusID = s] : s \in {1, Cancelled}}

NextLedger ==
    \/ \E req \in LedgerCreates : CreateBooking(req)
    \/ \E id \in BookingIds, data \in LedgerUpdates : UpdateBooking(id, data)
    \/ \E id \in BookingIds : CancelBooking(id, "staff", "no-show")
    \/ \E id \in BookingIds : HardDelete(id)

SpecLedger == Init /\ [][NextLedger]_vars


\* SpecBilling: the amounts vary, on two rooms and one pair of dates.  Every
\* update body sets totalBill or advancePayment, alone, together or with a
\* duePayment of the caller's own.
BillingRooms == {r \in Rooms : r.roomNumberID = "r1" /\ r.roomCategoryID = "c1"}

BillingCreates ==
    {CreateRequest(room, 1, 2, g, total, advance, due, NoBookingNo) :
        room \in BillingRooms, g \in Guests, total \in {1, 2}, advance \in {0, 2},
        due \in {Undef, 0}}

BillingUpdates ==
    {[NoUpdate EXCEPT !.totalBill = total, !.advancePayment = advance,
                      !.duePayment = due] :
        total \in {Undef, 0, 1}, advance \in {Undef, 1}, due \in {Undef, 2}}
    \ {[NoUpdate EXCEPT !.duePayment = due] : due \in {Undef, 2}}

StatsQueries ==
    {StatsQuery(hotelID, statusID, startDate, endDate) :
        hotelID \in {0, 1, 2}, statusID \in {Undef, 1, 255},
        startDate \in {0, 1}, endDate \in {0, 2}}

NextBilling ==
    \/ \E req \in BillingCreates : CreateBooking(req)
    \/ \E id \in BookingIds, data \in BillingUpdates : UpdateBooking(id, data)
    \/ \E id \in BookingIds : CancelBooking(id, "staff", "no-show")
    \/ \E id \in BookingIds : HardDelete(id)
    \/ \E query \in StatsQueries : GetBookingStats(query)

SpecBilling == Init /\ [][NextBilling]_vars

-----------------------------------------------------------------------------
(* createBooking under interleaving: every await is a step                 *)

\* Lines 95-132: the required fields and the overlap check.  A request that
\* passes goes on to the sequence generators.
RaceCheck(c, req) ==
    /\ inflight[c].pc = "idle"
    /\ UNCHANGED <<orderVars, bookings, nextId, today, seenAtCheck, saving, hotelVars>>
    /\ IF ~RequiredForOverlap(req) \/ ~DatesPresent(req)
       THEN /\ resp' = Answer("create", 400, 0, NoDetails)
            /\ UNCHANGED inflight
       ELSE LET matches == checkBookingOverlap(bookings, req.hotelID, req.roomNumberID,
                               req.roomCategoryID, req.checkInDate, req.checkOutDate, 0)
            IN  IF matches # {}
                THEN /\ \E overlappingBooking \in matches :
                          resp' = Answer("create", 409, 0,
                                         ConflictDetails(overlappingBooking))
                     /\ UNCHANGED inflight
                ELSE /\ inflight' = [inflight EXCEPT ![c] =
                            [Idle EXCEPT !.pc = "checked", !.req = req,
                                         !.seen = {b._id : b \in bookings}]]
                     /\ UNCHANGED resp

\* A generator that reserves its number: it skips the numbers handed to the
\* calls still in progress.
RaceSerialNoReserved(c) ==
    /\ inflight[c].pc = "checked"
    /\ inflight' = [inflight EXCEPT ![c].pc = "serial",
           ![c].serialNo = generateSerialNo(bookings)
               + Cardinality({d \in Clients : inflight[d].pc \in {"serial", "numbered"}})]
    /\ UNCHANGED <<orderVars, bookings, nextId, today, resp, seenAtCheck, saving, hotelVars>>

\* Line 135: await generateSerialNo().
RaceSerialNo(c) ==
    /\ inflight[c].pc = "checked"
    /\ inflight' = [inflight EXCEPT ![c].pc = "serial",
                                    ![c].serialNo = generateSerialNo(bookings)]
    /\ UNCHANGED <<orderVars, bookings, nextId, today, resp, seenAtCheck, saving, hotelVars>>

\* Lines 138-153: the reference lookup and await generateBookingNo().
RaceBookingNo(c) ==
    /\ inflight[c].pc = "serial"
    /\ inflight' = [inflight EXCEPT ![c].pc = "numbered",
                        ![c].bookingNo = ChooseBookingNo(bookings, today,
                                                         inflight[c].req.reference)]
    /\ UNCHANGED <<orderVars, bookings, nextId, today, resp, seenAtCheck, saving, hotelVars>>

\* Lines 156-165: await Booking.create() and the answer.
RaceWrite(c) ==
    /\ inflight[c].pc = "numbered"
    /\ UNCHANGED <<orderVars, today, saving, hotelVars>>
    /\ inflight' = [inflight EXCEPT ![c] = Idle]
    /\ LET doc == NewBooking(nextId, inflight[c].req, inflight[c].bookingNo,
                             inflight[c].serialNo, today)
       IN  IF ~ValidateDocument(doc) \/ DuplicateKey(bookings, doc)
           THEN /\ resp' = Answer("create", 400, 0, NoDetails)
                /\ UNCHANGED <<bookings, nextId, seenAtCheck>>
           ELSE /\ nextId <= MaxBookings
                /\ bookings' = bookings \cup {PreSaveBooking(doc)}
                /\ nextId' = nextId + 1
                /\ seenAtCheck' = [id \in DOMAIN seenAtCheck \cup {nextId} |->
                                      IF id = nextId THEN inflight[c].seen
                                      ELSE seenAtCheck[id]]
                /\ resp' = Answer("create", 200, nextId, NoDetails)

\* SpecRace: two clients, two rooms, three stays.
RaceCreates ==
    {CreateRequest(room, d[1], d[2], g, 2, 1, 1, NoBookingNo) :
        room \in BillingRooms, d \in {<<1, 2>>, <<1, 3>>, <<2, 3>>}, g \in Guests}

NextRace ==
    \/ \E c \in Clients, req \in RaceCreates : RaceCheck(c, req)
    \/ \E c \in Clients : RaceSerialNo(c)
    \/ \E c \in Clients : RaceBookingNo(c)
    \/ \E c \in Clients : RaceWrite(c)

SpecRace == Init /\ [][NextRace]_vars

-----------------------------------------------------------------------------
(* SpecNumbers: the sequence generators late in a busy day                 *)

\* The day's 98th and 99th bookings, what is left of its first 99 once the
\* other 97 were deleted: back-to-back stays in one room of a third hotel.
\* They were inserted before any booking the model creates, so their ids
\* sort first.
SeedSerials == {98, 99}
SeedBooking(i) ==
    PreSaveBooking(NewBooking(i - 100,
        CreateRequest([hotelID |-> 3, roomNumberID |-> "r1", roomCategoryID |-> "c1"],
                      i - 97, i - 96, "Ann", 2, 1, 1, NoBookingNo),
        [prefix |-> 1, serial |-> i], i, 1))
SeedIds == {i - 100 : i \in SeedSerials}

InitNumbers ==
    /\ bookings = {SeedBooking(i) : i \in SeedSerials}
    /\ nextId = 1
    /\ today = 1
    /\ resp = NoResp
    /\ inflight = [c \in Clients |-> Idle]
    /\ seenAtCheck = [id \in {} |-> {}]
    /\ saving = [c \in Clients |-> NotSaving]
    /\ hotels = {}
    /\ nextOid = 1
    /\ hotelSeq = 0
    /\ hresp = [op |-> "none", status |-> 0, totalRooms |-> Undef, steps |-> <<>>]
    /\ orders = {}
    /\ east = FALSE
    /\ oresp = NoOrderResp

NumberCreates ==
    {CreateRequest(room, d[1], d[2], g, 2, 1, 1, NoBookingNo) :
        room \in BillingRooms, d \in {<<1, 2>>, <<2, 3>>}, g \in Guests}

NextNumbers ==
    \/ \E req \in NumberCreates : CreateBooking(req)
    \/ \E id \in BookingIds \cup SeedIds : CancelBooking(id, "staff", "no-show")
    \/ \E id \in BookingIds \cup SeedIds : HardDelete(id)

SpecNumbers == InitNumbers /\ [][NextNumbers]_vars

-----------------------------------------------------------------------------
(* The Hotel model (models/Hotel.js) and its controller                    *)

MaxHotels == 1
MaxOid == 3

RoomStatusEnum == {"available", "occupied", "maintenance", "reserved"}

RECURSIVE SumLen(_)
SumLen(cats) ==
    IF cats = <<>> THEN 0 ELSE Len(Head(cats).roomNumbers) + SumLen(Tail(cats))

RECURSIVE CountAvailable(_)
CountAvailable(rooms) ==
    IF rooms = <<>> THEN 0
    ELSE (IF Head(rooms).status = "available" THEN 1 ELSE 0) + CountAvailable(Tail(rooms))

RECURSIVE SumAvailable(_)
SumAvailable(cats) ==
    IF cats = <<>> THEN 0
    ELSE CountAvailable(Head(cats).roomNumbers) + SumAvailable(Tail(cats))

calculatedTotalRooms(hotel) == SumLen(hotel.roomCategories)
calculatedAvailableRooms(hotel) == SumAvailable(hotel.roomCategories)

\* pre("save"): both counts are recomputed from the categories.
PreSaveHotel(hotel) ==
    [hotel EXCEPT !.totalRooms = calculatedTotalRooms(hotel),
                  !.availableRooms = calculatedAvailableRooms(hotel)]

\* A document read from the collection: a room stored without a status gets
\* the schema default.
HydrateRoom(room) == IF room.status = "" THEN [room EXCEPT !.status = "available"] ELSE room
HydrateCategory(cat) ==
    [cat EXCEPT !.roomNumbers = [i \in 1 .. Len(cat.roomNumbers) |-> HydrateRoom(cat.roomNumbers[i])]]
Hydrate(hotel) ==
    [hotel EXCEPT !.roomCategories =
        [i \in 1 .. Len(hotel.roomCategories) |-> HydrateCategory(hotel.roomCategories[i])]]

StoredRooms(hotel) ==
    UNION {{hotel.roomCategories[i].roomNumbers[j] :
                j \in 1 .. Len(hotel.roomCategories[i].roomNumbers)} :
           i \in 1 .. Len(hotel.roomCategories)}

\* The document as written when the defaults filled in on reading are not part
\* of the write: a room stored without a status, and not assigned by the
\* handler, stays without one.
WithoutReadDefaults(stored, doc, assigned) ==
    LET unset == {r._id : r \in {x \in StoredRooms(stored) : x.status = ""}} \ assigned
        room(r) == IF r._id \in unset THEN [r EXCEPT !.status = ""] ELSE r
        cat(c) == [c EXCEPT !.roomNumbers = [j \in 1 .. Len(c.roomNumbers) |-> room(c.roomNumbers[j])]]
    IN  [doc EXCEPT !.roomCategories =
            [i \in 1 .. Len(doc.roomCategories) |-> cat(doc.roomCategories[i])]]

\* Schema validation of a whole hotel document.
ValidateHotel(doc) ==
    \A i \in 1 .. Len(doc.roomCategories) :
        /\ doc.roomCategories[i].name # ""
        /\ doc.roomCategories[i].adults >= 1
        /\ \A j \in 1 .. Len(doc.roomCategories[i].roomNumbers) :
              LET room == doc.roomCategories[i].roomNumbers[j]
              IN  /\ room.name # "" /\ room.status \in RoomStatusEnum \cup {""}
                  /\ room.children >= 0

HOutcome(status, store) == [status |-> status, hotels |-> store]

\* hotel.save(): validation, the pre-save hook, the write.  `failure` is the
\* status the calling handler answers a validation error with.
SaveHotel(store, stored, doc, assigned, success, failure) ==
    IF ~ValidateHotel(doc) THEN {HOutcome(failure, store)}
    ELSE LET hooked == PreSaveHotel(doc)
         IN  {HOutcome(success, (store \ {stored}) \cup {written}) :
                  written \in {hooked, WithoutReadDefaults(stored, hooked, assigned)}}

\* findOne({ hotelID }) / findById
FindHotel(store, id) == {h \in store : h.hotelID = id}

IndexOfId(s, id) == {i \in 1 .. Len(s) : s[i]._id = id}
IndexOfName(s, name) == {i \in 1 .. Len(s) : s[i].name = name}
FirstOf(indices) == CHOOSE i \in indices : \A j \in indices : i <= j
RemoveAt(s, i) == [j \in 1 .. Len(s) - 1 |-> IF j < i THEN s[j] ELSE s[j + 1]]

getNextHotelID(store) ==
    IF store = {} THEN 1
    ELSE (CHOOSE m \in {h.hotelID : h \in store} : \A h \in store : h.hotelID <= m) + 1

\* emitHotelEvent that emits nothing.
emitHotelEventMuted(io, event, hotelID) == <<>>

\* emitHotelEvent, lines 51-65: to every client, then to the room of the
\* hotel.  server.js sets req.io on every request.
emitHotelEvent(io, event, hotelID) ==
    IF ~io THEN <<>>
    ELSE <<Step("emit", "hotel:" \o event, 0, 0)>>
         \o (IF hotelID # 0 THEN <<Step("emit", "hotel:" \o event, hotelID, 0)>> ELSE <<>>)

\* The tail of every mutating handler: after the awaited write the event,
\* then the success response; an early return or the catch block answers
\* without emitting.
HandlerSteps(status, event, hotelID) ==
    IF status \in {200, 201}
    THEN <<Step("write", "", 0, 0)>> \o emitHotelEvent(TRUE, event, hotelID)
         \o <<Step("respond", "", 0, status)>>
    ELSE <<Step("respond", "", 0, status)>>

HAnswer(op, status, totalRooms, event, hotelID) ==
    [op |-> op, status |-> status, totalRooms |-> totalRooms,
     steps |-> HandlerSteps(status, event, hotelID)]

OrZero(n) == IF n = Undef THEN 0 ELSE n

\* A path of the body, or what the document holds when the body lacks it.
OrDefault(n, d) == IF n = Undef THEN d ELSE n

\* uploadMiddleware: upload.array("images", 3) lets at most three files in.
MaxFiles == 3

\* A body without an images field.
NoImages == [given |-> FALSE, isArray |-> FALSE, urls |-> <<>>]

\* getImageUrls: the URL under which each uploaded file is served.
getImageUrls(files) == [i \in 1 .. Len(files) |-> "http://localhost:8000/" \o files[i]]

\* Array.prototype.slice(0, n)
Slice(s, n) == SubSeq(s, 1, IF Len(s) < n THEN Len(s) ELSE n)

\* The images a create handler stores (createHotel 80-87, addCategory
\* 354-360, addRoom 584-590): the uploaded files, else the images of the
\* body, else the schema default.
createImages(files, images) ==
    IF Len(files) > 0 THEN getImageUrls(files)
    ELSE IF images.given
    THEN (IF images.isArray THEN images.urls ELSE <<images.urls[1]>>)
    ELSE <<>>

\* The images an update handler stores (updateHotel 262-272, updateCategory
\* 492-501, updateRoom 748-757).
updateImages(existingImages, files, images) ==
    IF Len(files) > 0 THEN Slice(existingImages \o getImageUrls(files), 3)
    ELSE IF images.given
    THEN (IF images.isArray THEN Slice(images.urls, 3) ELSE <<images.urls[1]>>)
    ELSE existingImages

\* createHotel that keeps the hotelID of getNextHotelID.
createHotelNextID(store, seq, hotelData) ==
    LET doc == [hotelID |-> getNextHotelID(store),
                hotelName |-> hotelData.hotelName,
                roomCategories |-> <<>>,
                images |-> createImages(hotelData.files, hotelData.images),
                totalRooms |-> OrZero(hotelData.totalRooms),
                availableRooms |-> OrZero(hotelData.availableRooms)]
    IN  IF \E h \in store : h.hotelID = doc.hotelID
        THEN {HOutcome(409, store)}
        ELSE {HOutcome(201, store \cup {PreSaveHotel(doc)})}

\* createHotel, lines 76-141.  The sequence plugin numbers the new document.
createHotel(store, seq, hotelData) ==
    LET requested == [hotelID |-> getNextHotelID(store),
                      hotelName |-> hotelData.hotelName,
                      roomCategories |-> <<>>,
                      images |-> createImages(hotelData.files, hotelData.images),
                      totalRooms |-> OrZero(hotelData.totalRooms),
                      availableRooms |-> OrZero(hotelData.availableRooms)]
        doc == [requested EXCEPT !.hotelID = seq + 1]
    IN  IF \E h \in store : h.hotelID = doc.hotelID
        THEN {HOutcome(409, store)}
        ELSE {HOutcome(201, store \cup {PreSaveHotel(doc)})}

CreateHotel(hotelData) ==
    /\ \E out \in createHotel(hotels, hotelSeq, hotelData) :
          /\ hotels' = out.hotels
          /\ hotelSeq' = IF out.status = 201 THEN hotelSeq + 1 ELSE hotelSeq
          /\ hresp' = HAnswer("createHotel", out.status, hotelData.totalRooms, "created", hotelSeq + 1)
    /\ UNCHANGED <<orderVars, ledgerVars, nextOid>>

\* updateHotel, lines 241-304: Object.assign(hotel, updateData), then save.
updateHotel(store, id, updateData) ==
    IF FindHotel(store, id) = {} THEN {HOutcome(404, store)}
    ELSE UNION {
        LET hotel == Hydrate(stored)
            doc == [hotel EXCEPT
                      !.hotelName = updateData.hotelName,
                      !.images = updateImages(@, updateData.files, updateData.images),
                      !.totalRooms = IF updateData.totalRooms = Undef THEN @
                                     ELSE updateData.totalRooms,
                      !.availableRooms = IF updateData.availableRooms = Undef THEN @
                                         ELSE updateData.availableRooms,
                      !.roomCategories = IF updateData.clearCategories THEN <<>> ELSE @]
        IN  SaveHotel(store, stored, doc, {}, 200, 400) : stored \in FindHotel(store, id)}

UpdateHotel(id, updateData) ==
    /\ \E out \in updateHotel(hotels, id, updateData) :
          /\ hotels' = out.hotels
          /\ hresp' = HAnswer("updateHotel", out.status, updateData.totalRooms, "updated", id)
    /\ UNCHANGED <<orderVars, ledgerVars, nextOid, hotelSeq>>

\* deleteHotel, lines 311-338.
deleteHotel(store, id) ==
    IF FindHotel(store, id) = {} THEN {HOutcome(404, store)}
    ELSE {HOutcome(200, store \ {stored}) : stored \in FindHotel(store, id)}

DeleteHotel(id) ==
    /\ \E out \in deleteHotel(hotels, id) :
          /\ hotels' = out.hotels
          /\ hresp' = HAnswer("deleteHotel", out.status, Undef, "deleted", id)
    /\ UNCHANGED <<orderVars, ledgerVars, nextOid, hotelSeq>>

\* addCategory without the name check of lines 378-393.
addCategoryUnchecked(store, oid, hotelId, categoryData) ==
    IF FindHotel(store, hotelId) = {} THEN {HOutcome(404, store)}
    ELSE UNION {
        LET hotel == Hydrate(stored)
        IN  SaveHotel(store, stored,
                      [hotel EXCEPT !.roomCategories =
                          Append(@, [_id |-> oid, name |-> categoryData.name,
                                     images |-> createImages(categoryData.files, categoryData.images),
                                          adults |-> OrDefault(categoryData.adults, 2),
                                     roomNumbers |-> <<>>])],
                      {}, 201, 500) : stored \in FindHotel(store, hotelId)}

\* addCategory, lines 349-422.
addCategory(store, oid, hotelId, categoryData) ==
    IF FindHotel(store, hotelId) = {} THEN {HOutcome(404, store)}
    ELSE UNION {
        LET hotel == Hydrate(stored)
        IN  IF IndexOfName(hotel.roomCategories, categoryData.name) # {}
            THEN {HOutcome(409, store)}
            ELSE SaveHotel(store, stored,
                           [hotel EXCEPT !.roomCategories =
                               Append(@, [_id |-> oid, name |-> categoryData.name,
                                          images |-> createImages(categoryData.files, categoryData.images),
                                          adults |-> OrDefault(categoryData.adults, 2),
                                          roomNumbers |-> <<>>])],
                           {}, 201, 500) : stored \in FindHotel(store, hotelId)}

AddCategory(hotelId, categoryData) ==
    /\ \E out \in addCategory(hotels, nextOid, hotelId, categoryData) :
          /\ out.status = 201 => nextOid <= MaxOid
          /\ hotels' = out.hotels
          /\ nextOid' = IF out.status = 201 THEN nextOid + 1 ELSE nextOid
          /\ hresp' = HAnswer("addCategory", out.status, Undef, "category:added", hotelId)
    /\ UNCHANGED <<orderVars, ledgerVars, hotelSeq>>

\* updateCategory, lines 461-523: Object.assign(category, updateData), then save.
updateCategory(store, hotelId, categoryId, updateData) ==
    IF FindHotel(store, hotelId) = {} THEN {HOutcome(404, store)}
    ELSE UNION {
        LET hotel == Hydrate(stored)
            at == IndexOfId(hotel.roomCategories, categoryId)
        IN  IF at = {} THEN {HOutcome(404, store)}
            ELSE SaveHotel(store, stored,
                           [hotel EXCEPT !.roomCategories[FirstOf(at)].name = updateData.name,
                                         !.roomCategories[FirstOf(at)].images =
                                             updateImages(@, updateData.files, updateData.images),
                                         !.roomCategories[FirstOf(at)].adults =
                                             OrDefault(updateData.adults, @)],
                           {}, 200, 500) : stored \in FindHotel(store, hotelId)}

UpdateCategory(hotelId, categoryId, updateData) ==
    /\ \E out \in updateCategory(hotels, hotelId, categoryId, updateData) :
          /\ hotels' = out.hotels
          /\ hresp' = HAnswer("updateCategory", out.status, Undef, "category:updated", hotelId)
    /\ UNCHANGED <<orderVars, ledgerVars, nextOid, hotelSeq>>

\* deleteCategory, lines 530-568.
deleteCategory(store, hotelId, categoryId) ==
    IF FindHotel(store, hotelId) = {} THEN {HOutcome(404, store)}
    ELSE UNION {
        LET hotel == Hydrate(stored)
            at == IndexOfId(hotel.roomCategories, categoryId)
        IN  IF at = {} THEN {HOutcome(404, store)}
            ELSE SaveHotel(store, stored,
                           [hotel EXCEPT !.roomCategories = RemoveAt(@, FirstOf(at))],
                           {}, 200, 500) : stored \in FindHotel(store, hotelId)}

DeleteCategory(hotelId, categoryId) ==
    /\ \E out \in deleteCategory(hotels, hotelId, categoryId) :
          /\ hotels' = out.hotels
          /\ hresp' = HAnswer("deleteCategory", out.status, Undef, "category:deleted", hotelId)
    /\ UNCHANGED <<orderVars, ledgerVars, nextOid, hotelSeq>>

NewRoom(oid, roomData) ==
    [_id |-> oid, name |-> roomData.name,
     images |-> createImages(roomData.files, roomData.images),
     children |-> OrDefault(roomData.children, 0),
     bookedDates |-> <<>>, bookings |-> <<>>,
     status |-> IF roomData.status = "" THEN "available" ELSE roomData.status]

\* addRoom, lines 579-659.
addRoom(store, oid, hotelId, categoryId, roomData) ==
    IF FindHotel(store, hotelId) = {} THEN {HOutcome(404, store)}
    ELSE UNION {
        LET hotel == Hydrate(stored)
            at == IndexOfId(hotel.roomCategories, categoryId)
        IN  IF at = {} THEN {HOutcome(404, store)}
            ELSE IF IndexOfName(hotel.roomCategories[FirstOf(at)].roomNumbers,
                                roomData.name) # {}
            THEN {HOutcome(409, store)}
            ELSE SaveHotel(store, stored,
                           [hotel EXCEPT !.roomCategories[FirstOf(at)].roomNumbers =
                               Append(@, NewRoom(oid, roomData))],
                           {oid}, 201, 500) : stored \in FindHotel(store, hotelId)}

AddRoom(hotelId, categoryId, roomData) ==
    /\ \E out \in addRoom(hotels, nextOid, hotelId, categoryId, roomData) :
          /\ out.status = 201 => nextOid <= MaxOid
          /\ hotels' = out.hotels
          /\ nextOid' = IF out.status = 201 THEN nextOid + 1 ELSE nextOid
          /\ hresp' = HAnswer("addRoom", out.status, Undef, "room:added", hotelId)
    /\ UNCHANGED <<orderVars, ledgerVars, hotelSeq>>

\* updateRoom, lines 707-781: Object.assign(room, updateData), then save.
updateRoom(store, hotelId, categoryId, roomId, updateData) ==
    IF FindHotel(store, hotelId) = {} THEN {HOutcome(404, store)}
    ELSE UNION {
        LET hotel == Hydrate(stored)
            at == IndexOfId(hotel.roomCategories, categoryId)
        IN  IF at = {} THEN {HOutcome(404, store)}
            ELSE LET c == FirstOf(at)
                     rat == IndexOfId(hotel.roomCategories[c].roomNumbers, roomId)
                 IN  IF rat = {} THEN {HOutcome(404, store)}
                     ELSE SaveHotel(store, stored,
                            [hotel EXCEPT
                               !.roomCategories[c].roomNumbers[FirstOf(rat)].name =
                                   updateData.name,
                               !.roomCategories[c].roomNumbers[FirstOf(rat)].images =
                                   updateImages(@, updateData.files, updateData.images),
                               !.roomCategories[c].roomNumbers[FirstOf(rat)].children =
                                   OrDefault(updateData.children, @),
                               !.roomCategories[c].roomNumbers[FirstOf(rat)].status =
                                   IF updateData.status = "" THEN @ ELSE updateData.status],
                            IF updateData.status = "" THEN {} ELSE {roomId},
                            200, 500) : stored \in FindHotel(store, hotelId)}

UpdateRoom(hotelId, categoryId, roomId, updateData) ==
    /\ \E out \in updateRoom(hotels, hotelId, categoryId, roomId, updateData) :
          /\ hotels' = out.hotels
          /\ hresp' = HAnswer("updateRoom", out.status, Undef, "room:updated", hotelId)
    /\ UNCHANGED <<orderVars, ledgerVars, nextOid, hotelSeq>>

\* deleteRoom, lines 788-834.
deleteRoom(store, hotelId, categoryId, roomId) ==
    IF FindHotel(store, hotelId) = {} THEN {HOutcome(404, store)}
    ELSE UNION {
        LET hotel == Hydrate(stored)
            at == IndexOfId(hotel.roomCategories, categoryId)
        IN  IF at = {} THEN {HOutcome(404, store)}
            ELSE LET c == FirstOf(at)
                     rat == IndexOfId(hotel.roomCategories[c].roomNumbers, roomId)
                 IN  IF rat = {} THEN {HOutcome(404, store)}
                     ELSE SaveHotel(store, stored,
                            [hotel EXCEPT !.roomCategories[c].roomNumbers =
                                RemoveAt(@, FirstOf(rat))],
                            {}, 200, 500) : stored \in FindHotel(store, hotelId)}

DeleteRoom(hotelId, categoryId, roomId) ==
    /\ \E out \in deleteRoom(hotels, hotelId, categoryId, roomId) :
          /\ hotels' = out.hotels
          /\ hresp' = HAnswer("deleteRoom", out.status, Undef, "room:deleted", hotelId)
    /\ UNCHANGED <<orderVars, ledgerVars, nextOid, hotelSeq>>

\* Lines 979-984: each entry sets the status of the first room of that name.
RECURSIVE SetStatuses(_, _)
SetStatuses(rooms, roomStatuses) ==
    IF roomStatuses = <<>> THEN rooms
    ELSE LET entry == Head(roomStatuses)
             at == IndexOfName(rooms, entry.name)
         IN  SetStatuses(IF at = {} THEN rooms
                         ELSE [rooms EXCEPT ![FirstOf(at)].status = entry.status],
                         Tail(roomStatuses))

\* updateRoomStatus, lines 959-1000.  An entry without a status has status "".
updateRoomStatus(store, hotelID, categoryID, body) ==
    IF ~body.isArray THEN {HOutcome(400, store)}
    ELSE IF FindHotel(store, hotelID) = {} THEN {HOutcome(404, store)}
    ELSE UNION {
        LET hotel == Hydrate(stored)
            at == IndexOfName(hotel.roomCategories, categoryID)
        IN  IF at = {} THEN {HOutcome(404, store)}
            ELSE LET c == FirstOf(at)
                     rooms == hotel.roomCategories[c].roomNumbers
                     named == {body.roomStatuses[k].name : k \in 1 .. Len(body.roomStatuses)}
                 IN  SaveHotel(store, stored,
                        [hotel EXCEPT !.roomCategories[c].roomNumbers =
                            SetStatuses(rooms, body.roomStatuses)],
                        {rooms[FirstOf(IndexOfName(rooms, n))]._id :
                            n \in {m \in named : IndexOfName(rooms, m) # {}}},
                        200, 500) : stored \in FindHotel(store, hotelID)}

UpdateRoomStatus(hotelID, categoryID, body) ==
    /\ \E out \in updateRoomStatus(hotels, hotelID, categoryID, body) :
          /\ hotels' = out.hotels
          /\ hresp' = HAnswer("updateRoomStatus", out.status, Undef, "room:status:updated", hotelID)
    /\ UNCHANGED <<orderVars, ledgerVars, nextOid, hotelSeq>>

\* The legacy room-level updateBooking of the hotel controller, lines
\* 845-889: the first entry of booking.bookings and the dates of
\* booking.bookedDates are pushed onto the room found by name, then save.
hotelUpdateBooking(store, body) ==
    IF FindHotel(store, body.hotelID) = {} THEN {HOutcome(404, store)}
    ELSE UNION {
        LET hotel == Hydrate(stored)
            at == IndexOfName(hotel.roomCategories, body.categoryName)
        IN  IF at = {} THEN {HOutcome(404, store)}
            ELSE LET c == FirstOf(at)
                     rat == IndexOfName(hotel.roomCategories[c].roomNumbers, body.roomName)
                 IN  IF rat = {} THEN {HOutcome(404, store)}
                     ELSE SaveHotel(store, stored,
                            [hotel EXCEPT
                               !.roomCategories[c].roomNumbers[FirstOf(rat)].bookings =
                                   @ \o Slice(body.booking.bookings, 1),
                               !.roomCategories[c].roomNumbers[FirstOf(rat)].bookedDates =
                                   @ \o body.booking.bookedDates],
                            {}, 200, 500) : stored \in FindHotel(store, body.hotelID)}

HotelUpdateBooking(body) ==
    /\ \E out \in hotelUpdateBooking(hotels, body) :
          /\ hotels' = out.hotels
          /\ hresp' = HAnswer("updateBooking", out.status, Undef, "booking:updated", body.hotelID)
    /\ UNCHANGED <<orderVars, ledgerVars, nextOid, hotelSeq>>

\* deleteBookingDetails, lines 896-952: the entries whose check-in day is in
\* datesToDelete leave room.bookings, the dates leave room.bookedDates.
deleteBookingDetails(store, body) ==
    IF ~body.isArray THEN {HOutcome(400, store)}
    ELSE IF FindHotel(store, body.hotelID) = {} THEN {HOutcome(404, store)}
    ELSE UNION {
        LET hotel == Hydrate(stored)
            at == IndexOfName(hotel.roomCategories, body.categoryName)
        IN  IF at = {} THEN {HOutcome(404, store)}
            ELSE LET c == FirstOf(at)
                     rat == IndexOfName(hotel.roomCategories[c].roomNumbers, body.roomName)
                 IN  IF rat = {} THEN {HOutcome(404, store)}
                     ELSE SaveHotel(store, stored,
                            [hotel EXCEPT
                               !.roomCategories[c].roomNumbers[FirstOf(rat)].bookings =
                                   SelectSeq(@, LAMBDA booking :
                                                   booking.checkIn \notin body.datesToDelete),
                               !.roomCategories[c].roomNumbers[FirstOf(rat)].bookedDates =
                                   SelectSeq(@, LAMBDA date : date \notin body.datesToDelete)],
                            {}, 200, 500) : stored \in FindHotel(store, body.hotelID)}

DeleteBookingDetails(body) ==
    /\ \E out \in deleteBookingDetails(hotels, body) :
          /\ hotels' = out.hotels
          /\ hresp' = HAnswer("deleteBookingDetails", out.status, Undef, "booking:deleted", body.hotelID)
    /\ UNCHANGED <<orderVars, ledgerVars, nextOid, hotelSeq>>

\* SpecInventory: the requests.
HotelParams == 1 .. MaxHotels
Oids == 1 .. MaxOid
Names == {"A", "B"}
HotelBodies ==
    {[hotelName |-> "Sea Shore", totalRooms |-> n, availableRooms |-> n,
      clearCategories |-> clear, files |-> <<>>, images |-> NoImages] :
        n \in {Undef, 5}, clear \in BOOLEAN}
CategoryBodies ==
    {[name |-> n, adults |-> Undef, files |-> <<>>, images |-> NoImages] : n \in Names}
RoomBodies ==
    {[name |-> n, status |-> st, children |-> Undef, files |-> <<>>, images |-> NoImages] :
        n \in Names, st \in {"", "occupied"}}
RoomUpdates ==
    {[name |-> n, status |-> st, children |-> Undef, files |-> <<>>, images |-> NoImages] :
        n \in Names, st \in {"", "available"}}
StatusBodies ==
    {[isArray |-> TRUE, roomStatuses |-> <<[name |-> n, status |-> st]>>] :
        n \in Names, st \in {"", "available", "maintenance", "dirty"}}
    \cup {[isArray |-> FALSE, roomStatuses |-> <<>>]}

NextInventory ==
    \/ \E body \in {b \in HotelBodies : ~b.clearCategories} : hotelSeq < MaxHotels /\ CreateHotel(body)
    \/ \E id \in HotelParams, body \in HotelBodies : UpdateHotel(id, body)
    \/ \E id \in HotelParams : DeleteHotel(id)
    \/ \E id \in HotelParams, body \in CategoryBodies : AddCategory(id, body)
    \/ \E id \in HotelParams, cid \in Oids, body \in CategoryBodies :
          UpdateCategory(id, cid, body)
    \/ \E id \in HotelParams, cid \in Oids : DeleteCategory(id, cid)
    \/ \E id \in HotelParams, cid \in Oids, body \in RoomBodies : AddRoom(id, cid, body)
    \/ \E id \in HotelParams, cid \in Oids, rid \in Oids, body \in RoomUpdates :
          UpdateRoom(id, cid, rid, body)
    \/ \E id \in HotelParams, cid \in Oids, rid \in Oids : DeleteRoom(id, cid, rid)
    \/ \E id \in HotelParams, name \in Names, body \in StatusBodies :
          UpdateRoomStatus(id, name, body)

SpecInventory == Init /\ [][NextInventory]_vars

\* SpecGallery: one category name and one room name, the images vary.  A
\* body holds no images field, one URL string, or an array of MaxUrls URL
\* strings; a multipart request holds as many files as the upload lets in.
MaxUrls == 4

GalleryFiles == {<<>>, [i \in 1 .. MaxFiles |-> "uploads/" \o ToString(i) \o ".png"]}
GalleryImages ==
    {NoImages,
     [given |-> TRUE, isArray |-> FALSE, urls |-> <<"https://i.ibb.co/1">>],
     [given |-> TRUE, isArray |-> TRUE,
      urls |-> [i \in 1 .. MaxUrls |-> "https://i.ibb.co/" \o ToString(i)]]}
GalleryHotelBodies ==
    {[hotelName |-> "Sea Shore", totalRooms |-> Undef, availableRooms |-> Undef,
      clearCategories |-> FALSE, files |-> f, images |-> i] :
        f \in GalleryFiles, i \in GalleryImages}
GalleryCategoryBodies ==
    {[name |-> "A", adults |-> Undef, files |-> f, images |-> i] :
        f \in GalleryFiles, i \in GalleryImages}
GalleryRoomBodies ==
    {[name |-> "A", status |-> "", children |-> Undef, files |-> f, images |-> i] :
        f \in GalleryFiles, i \in GalleryImages}

NextGallery ==
    \/ \E body \in GalleryHotelBodies : hotelSeq < MaxHotels /\ CreateHotel(body)
    \/ \E id \in HotelParams, body \in GalleryHotelBodies : UpdateHotel(id, body)
    \/ \E id \in HotelParams, body \in GalleryCategoryBodies : AddCategory(id, body)
    \/ \E id \in HotelParams, cid \in Oids, body \in GalleryCategoryBodies :
          UpdateCategory(id, cid, body)
    \/ \E id \in HotelParams, cid \in Oids, body \in GalleryRoomBodies : AddRoom(id, cid, body)
    \/ \E id \in HotelParams, cid \in Oids, rid \in Oids, body \in GalleryRoomBodies :
          UpdateRoom(id, cid, rid, body)

SpecGallery == Init /\ [][NextGallery]_vars

\* SpecSchema: bodies that pass the request validators (which look at name,
\* status, price, basePrice and capacity.adults) and hold a value the schema
\* rejects: maxOccupancy.adults below 1 in a category, capacity.children
\* below 0 in a room.
SchemaCategoryBodies ==
    {[name |-> n, adults |-> a, files |-> <<>>, images |-> NoImages] :
        n \in Names, a \in {Undef, 0}}
SchemaRoomBodies ==
    {[name |-> n, status |-> "", children |-> ch, files |-> <<>>, images |-> NoImages] :
        n \in Names, ch \in {Undef, -2}}

NextSchema ==
    \/ \E body \in {b \in HotelBodies : ~b.clearCategories /\ b.totalRooms = Undef} :
          hotelSeq < MaxHotels /\ CreateHotel(body)
    \/ \E id \in HotelParams, body \in SchemaCategoryBodies : AddCategory(id, body)
    \/ \E id \in HotelParams, cid \in Oids, body \in SchemaCategoryBodies :
          UpdateCategory(id, cid, body)
    \/ \E id \in HotelParams, cid \in Oids, body \in SchemaRoomBodies : AddRoom(id, cid, body)
    \/ \E id \in HotelParams, cid \in Oids, rid \in Oids, body \in SchemaRoomBodies :
          UpdateRoom(id, cid, rid, body)

SpecSchema == Init /\ [][NextSchema]_vars

\* SpecHotelIds: hotels are created and deleted over and over.
MaxHotelIds == 3

HotelIdParams == 1 .. MaxHotelIds

NextHotelIds ==
    \/ \E body \in {b \in HotelBodies : ~b.clearCategories} :
          hotelSeq < MaxHotelIds /\ CreateHotel(body)
    \/ \E id \in HotelIdParams, body \in {b \in HotelBodies : ~b.clearCategories} :
          UpdateHotel(id, body)
    \/ \E id \in HotelIdParams : DeleteHotel(id)
    \/ \E id \in HotelIdParams, body \in CategoryBodies : AddCategory(id, body)

SpecHotelIds == Init /\ [][NextHotelIds]_vars

-----------------------------------------------------------------------------
(* addCategory and addRoom under interleaving: the load and the save are   *)
(* separate steps                                                          *)

WOutcome(ok, hotel) == [ok |-> ok, hotel |-> hotel]

\* The save that writes the whole in-memory document over the stored one.
WriteWhole(current, loaded, doc, op, at) == {WOutcome(TRUE, PreSaveHotel(doc))}

\* hotel.save() of a document whose only change is a push.  The write carries
\* what the handler changed, not the document: the pushed element goes onto
\* the array as stored now, and a count is set when the hook changed it.  A
\* push into the rooms of a category addresses the category by position, and
\* is refused when the stored document has changed since it was loaded,
\* unless the build does not version such a push.
WriteDelta(current, loaded, doc, op, at) ==
    LET hooked == PreSaveHotel(doc)
        counted == [current EXCEPT
                      !.totalRooms = IF hooked.totalRooms = loaded.totalRooms THEN @
                                     ELSE hooked.totalRooms,
                      !.availableRooms = IF hooked.availableRooms = loaded.availableRooms
                                         THEN @ ELSE hooked.availableRooms]
        pushed == doc.roomCategories[at]
    IN  IF op = "addCategory"
        THEN {WOutcome(TRUE, [counted EXCEPT !.roomCategories = Append(@, pushed)])}
        ELSE LET room == pushed.roomNumbers[Len(pushed.roomNumbers)]
                 written == WOutcome(TRUE,
                     [counted EXCEPT !.roomCategories[at].roomNumbers = Append(@, room)])
             IN  IF current = loaded THEN {written}
                 ELSE {WOutcome(FALSE, current), written}

\* addCategory (lines 349-394) and addRoom (lines 579-634) up to the save:
\* the hotel is loaded, the names are checked, the element is pushed onto the
\* document in memory.
\* The event of addCategory (line 402) and of addRoom (line 642).
AddedEvent(op) == IF op = "addCategory" THEN "category:added" ELSE "room:added"

LoadAndPush(c, op, hotelId, categoryId, data) ==
    /\ saving[c].pc = "idle"
    /\ UNCHANGED <<orderVars, bookings, nextId, today, resp, inflight, seenAtCheck, hotels, hotelSeq>>
    /\ IF FindHotel(hotels, hotelId) = {}
       THEN /\ hresp' = HAnswer(op, 404, Undef, AddedEvent(op), hotelId)
            /\ UNCHANGED <<saving, nextOid>>
       ELSE \E stored \in FindHotel(hotels, hotelId) :
            LET hotel == Hydrate(stored)
                at == IndexOfId(hotel.roomCategories, categoryId)
                names == IF op = "addCategory" THEN hotel.roomCategories
                         ELSE hotel.roomCategories[FirstOf(at)].roomNumbers
                doc == IF op = "addCategory"
                       THEN [hotel EXCEPT !.roomCategories =
                                Append(@, [_id |-> nextOid, name |-> data.name,
                                           images |-> createImages(data.files, data.images),
                                           adults |-> OrDefault(data.adults, 2),
                                           roomNumbers |-> <<>>])]
                       ELSE [hotel EXCEPT !.roomCategories[FirstOf(at)].roomNumbers =
                                Append(@, NewRoom(nextOid, data))]
            IN  IF op = "addRoom" /\ at = {}
                THEN /\ hresp' = HAnswer(op, 404, Undef, AddedEvent(op), hotelId)
                     /\ UNCHANGED <<saving, nextOid>>
                ELSE IF IndexOfName(names, data.name) # {}
                THEN /\ hresp' = HAnswer(op, 409, Undef, AddedEvent(op), hotelId)
                     /\ UNCHANGED <<saving, nextOid>>
                ELSE /\ nextOid <= MaxOid
                     /\ saving' = [saving EXCEPT ![c] =
                           [@ EXCEPT !.pc = "saving", !.op = op, !.loaded = stored,
                                     !.doc = doc, !.oid = nextOid,
                                     !.at = IF op = "addCategory"
                                            THEN Len(doc.roomCategories)
                                            ELSE FirstOf(at)]]
                     /\ nextOid' = nextOid + 1
                     /\ UNCHANGED hresp

\* await hotel.save() and the answer (lines 396-421, 636-658).
SaveAndAnswer(c) ==
    /\ saving[c].pc = "saving"
    /\ UNCHANGED <<orderVars, bookings, nextId, today, resp, inflight, seenAtCheck, nextOid, hotelSeq>>
    /\ LET s == saving[c]
           found == FindHotel(hotels, s.loaded.hotelID)
           back == [s EXCEPT !.pc = "idle", !.op = "none", !.loaded = NoHotel,
                             !.doc = NoHotel, !.at = 0, !.oid = 0]
       IN  IF found = {} \/ ~ValidateHotel(s.doc)
           THEN /\ hresp' = HAnswer(s.op, 500, Undef, AddedEvent(s.op), s.loaded.hotelID)
                /\ saving' = [saving EXCEPT ![c] = back]
                /\ UNCHANGED hotels
           ELSE \E current \in found :
                \E out \in WriteDelta(current, s.loaded, s.doc, s.op, s.at) :
                    IF out.ok
                    THEN /\ hotels' = (hotels \ {current}) \cup {out.hotel}
                         /\ hresp' = HAnswer(s.op, 201, Undef, AddedEvent(s.op), s.loaded.hotelID)
                         /\ saving' = [saving EXCEPT ![c] =
                               [back EXCEPT !.done = @ \cup {s.oid},
                                            !.stale = IF current = s.loaded THEN @
                                                      ELSE @ \cup {s.oid}]]
                    ELSE /\ hresp' = HAnswer(s.op, 500, Undef, AddedEvent(s.op), s.loaded.hotelID)
                         /\ saving' = [saving EXCEPT ![c] = back]
                         /\ UNCHANGED hotels

NextHotelRace ==
    \/ \E body \in {b \in HotelBodies : ~b.clearCategories /\ b.totalRooms = Undef} :
          hotelSeq < MaxHotels /\ CreateHotel(body)
    \/ \E c \in Clients, id \in HotelParams, body \in CategoryBodies :
          LoadAndPush(c, "addCategory", id, 0, body)
    \/ \E c \in Clients, id \in HotelParams, cid \in Oids, body \in RoomBodies :
          LoadAndPush(c, "addRoom", id, cid, body)
    \/ \E c \in Clients : SaveAndAnswer(c)

SpecHotelRace == Init /\ [][NextHotelRace]_vars

-----------------------------------------------------------------------------
(* The ledger and the legacy room-level bookings of a hotel side by side    *)

MaxEntries == 2

\* The bookedDates and bookings entries the rooms of the hotels hold.
RoomsBelow(store, n) ==
    \A h \in store : \A room \in StoredRooms(h) :
        Len(room.bookedDates) < n /\ Len(room.bookings) < n

RoomBookingBodies ==
    {[hotelID |-> 1, categoryName |-> "A", roomName |-> n,
      booking |-> [bookings |-> bs, bookedDates |-> ds]] :
        n \in Names, bs \in {<<>>, <<[guestName |-> "Ann", checkIn |-> 1]>>},
        ds \in {<<>>, <<1>>, <<2>>}}

DeleteDetailsBodies ==
    {[hotelID |-> 1, categoryName |-> "A", roomName |-> "A", isArray |-> a,
      datesToDelete |-> ds] : a \in BOOLEAN, ds \in {{1}, {2}}}

RoomBookingCreates ==
    {CreateRequest(room, 1, 2, "Ann", 2, 1, 1, NoBookingNo) : room \in BillingRooms}

RoomBookingUpdates == {[NoUpdate EXCEPT !.checkOutDate = 3]}

NextRoomBookings ==
    \/ \E body \in {b \in HotelBodies : ~b.clearCategories /\ b.totalRooms = Undef} :
          hotelSeq < MaxHotels /\ CreateHotel(body)
    \/ \E body \in {b \in CategoryBodies : b.name = "A"} : AddCategory(1, body)
    \/ \E cid \in Oids, body \in {b \in RoomBodies : b.name = "A" /\ b.status = ""} :
          AddRoom(1, cid, body)
    \/ \E body \in RoomBookingBodies :
          RoomsBelow(hotels, MaxEntries) /\ HotelUpdateBooking(body)
    \/ \E body \in DeleteDetailsBodies : DeleteBookingDetails(body)
    \/ \E req \in RoomBookingCreates : CreateBooking(req)
    \/ \E id \in BookingIds, data \in RoomBookingUpdates : UpdateBooking(id, data)
    \/ \E id \in BookingIds : CancelBooking(id, "staff", "no-show")
    \/ \E id \in BookingIds : HardDelete(id)

SpecRoomBookings == Init /\ [][NextRoomBookings]_vars

-----------------------------------------------------------------------------
(* The restaurant orders (models/restaurant/Order.js) and their controller  *)

MaxOrders == 3

\* An order without an orderNumber; also "the count query succeeded" where
\* the number of the catch block is asked for.
NoOrderNumber == [date |-> 0, n |-> 0]

\* today.toISOString().slice(0, 10) for today = the local midnight: the UTC
\* date, which is the day before when the server is ahead of UTC.
DateStr(day, ahead) == IF ahead THEN day - 1 ELSE day

\* countDocuments({ createdAt: { $gte: today, $lt: tomorrow } })
CreatedToday(store, day) == {o \in store : o.createdAt = day}

\* The pre-save hook counting only the orders that are not soft-deleted.
PreSaveOrderActiveOnly(store, doc, day, ahead, fallback) ==
    IF doc.orderNumber # NoOrderNumber THEN doc
    ELSE IF fallback = NoOrderNumber
    THEN [doc EXCEPT !.orderNumber =
            [date |-> DateStr(day, ahead),
             n |-> Cardinality({o \in CreatedToday(store, day) : o.statusID # 255}) + 1]]
    ELSE [doc EXCEPT !.orderNumber = fallback, !.counted = FALSE]

\* OrderSchema.pre("save"), lines 105-133.  `fallback` is the number the
\* catch block builds from the clock when the count query fails.  The field
\* `counted` records which of the two branches numbered the order.
PreSaveOrder(store, doc, day, ahead, fallback) ==
    IF doc.orderNumber # NoOrderNumber THEN doc
    ELSE IF fallback = NoOrderNumber
    THEN [doc EXCEPT !.orderNumber =
            [date |-> DateStr(day, ahead),
             n |-> Cardinality(CreatedToday(store, day)) + 1]]
    ELSE [doc EXCEPT !.orderNumber = fallback, !.counted = FALSE]

OOutcome(status, orderNumber, store) ==
    [status |-> status, orderNumber |-> orderNumber, orders |-> store]

\* The document Order.create builds: no orderNumber, createdAt from the
\* timestamps option.
NewOrder(id, body, day) ==
    [_id |-> id, customerName |-> body.customerName, orderStatus |-> "pending",
     statusID |-> 1, createdAt |-> day, orderNumber |-> NoOrderNumber, counted |-> TRUE]

\* createOrder, POST /api/restaurant/order.  The unique index on orderNumber
\* rejects a second order of the same number.
createOrder(store, id, day, ahead, body, fallback) ==
    IF body.customerName = "" \/ ~body.hasItems
    THEN OOutcome(400, NoOrderNumber, store)
    ELSE LET order == PreSaveOrder(store, NewOrder(id, body, day), day, ahead, fallback)
         IN  IF \E o \in store : o.orderNumber = order.orderNumber
             THEN OOutcome(500, NoOrderNumber, store)
             ELSE OOutcome(201, order.orderNumber, store \cup {order})

OAnswer(op, out) == [op |-> op, status |-> out.status, orderNumber |-> out.orderNumber]

\* The number of the catch block (lines 123-129): the date and the last
\* four digits of Date.now(); stamp 0 stands for a count that succeeded.
Fallback(stamp, day, ahead) ==
    IF stamp = 0 THEN NoOrderNumber ELSE [date |-> DateStr(day, ahead), n |-> stamp]

CreateOrder(body, stamp) ==
    /\ Cardinality(orders) < MaxOrders
    /\ LET out == createOrder(orders, Cardinality(orders) + 1, today, east, body,
                              Fallback(stamp, today, east))
       IN  /\ orders' = out.orders
           /\ oresp' = OAnswer("createOrder", out)
    /\ UNCHANGED <<ledgerVars, hotelVars, east>>

\* updateOrder, PUT /api/restaurant/order/:id: findByIdAndUpdate with the
\* fields of the body, none of which is the orderNumber; no save hook runs.
updateOrder(store, id, body) ==
    IF ~\E o \in store : o._id = id THEN OOutcome(404, NoOrderNumber, store)
    ELSE LET order == CHOOSE o \in store : o._id = id
         IN  OOutcome(200, order.orderNumber,
                      (store \ {order}) \cup {[order EXCEPT !.orderStatus = body.orderStatus]})

UpdateOrder(id, body) ==
    /\ LET out == updateOrder(orders, id, body)
       IN  /\ orders' = out.orders
           /\ oresp' = OAnswer("updateOrder", out)
    /\ UNCHANGED <<ledgerVars, hotelVars, east>>

\* deleteOrder, lines 391-421: the soft delete.
deleteOrder(store, id) ==
    IF ~\E o \in store : o._id = id THEN OOutcome(404, NoOrderNumber, store)
    ELSE LET order == CHOOSE o \in store : o._id = id
         IN  OOutcome(200, order.orderNumber,
                      (store \ {order}) \cup {[order EXCEPT !.statusID = 255]})

DeleteOrder(id) ==
    /\ LET out == deleteOrder(orders, id)
       IN  /\ orders' = out.orders
           /\ oresp' = OAnswer("deleteOrder", out)
    /\ UNCHANGED <<ledgerVars, hotelVars, east>>

\* Midnight passes.
NextDay ==
    /\ today < MaxDay
    /\ today' = today + 1
    /\ UNCHANGED <<bookings, nextId, resp, raceVars, hotelVars, orderVars>>

\* SpecOrders: the requests.  The server runs in UTC or ahead of it.
OrderIds == 1 .. MaxOrders
OrderBodies == {[customerName |-> n, hasItems |-> i] : n \in {"", "Ann"}, i \in BOOLEAN}
OrderUpdates == {[orderStatus |-> "served"]}
Stamps == 0 .. 2

InitOrders ==
    /\ bookings = {}
    /\ nextId = 1
    /\ today = 1
    /\ resp = NoResp
    /\ inflight = [c \in Clients |-> Idle]
    /\ seenAtCheck = [id \in {} |-> {}]
    /\ saving = [c \in Clients |-> NotSaving]
    /\ hotels = {}
    /\ nextOid = 1
    /\ hotelSeq = 0
    /\ hresp = [op |-> "none", status |-> 0, totalRooms |-> Undef, steps |-> <<>>]
    /\ orders = {}
    /\ east \in BOOLEAN
    /\ oresp = NoOrderResp

NextOrders ==
    \/ \E body \in OrderBodies, stamp \in Stamps : CreateOrder(body, stamp)
    \/ \E id \in OrderIds, body \in OrderUpdates : UpdateOrder(id, body)
    \/ \E id \in OrderIds : DeleteOrder(id)
    \/ NextDay

SpecOrders == InitOrders /\ [][NextOrders]_vars

-----------------------------------------------------------------------------
(* Properties of the Reservation Ledger                                    *)

Active(b) == b.statusID # Cancelled

SameRoom(a, r) ==
    /\ a.hotelID = r.hotelID
    /\ a.roomNumberID = r.roomNumberID
    /\ a.roomCategoryID = r.roomCategoryID

\* [a.checkInDate, a.checkOutDate) and [r.checkInDate, r.checkOutDate) overlap.
Intersects(a, r) ==
    /\ a.checkInDate < r.checkOutDate
    /\ r.checkInDate < a.checkOutDate

\* C1: in every state reached by non-interleaved create, update, cancel and
\* hard-delete requests, no two stored bookings that are not cancelled and are
\* on the same (hotelID, roomNumberID, roomCategoryID) have overlapping
\* [checkInDate, checkOutDate) intervals.
C1_NoOverlap ==
    \A a \in bookings : \A b \in bookings :
        (a._id # b._id /\ Active(a) /\ Active(b) /\ SameRoom(a, b)) => ~Intersects(a, b)

\* C2: a create request B that overlaps a stored, not cancelled booking on its
\* room is answered 409 with the bookingNo, dates and guest name of a stored
\* booking that overlaps B, and the collection is left as it was.
C2_ConflictOnOverlap ==
    \A req \in LedgerCreates :
        (\E a \in bookings : Active(a) /\ SameRoom(a, req) /\ Intersects(a, req)) =>
            /\ createBooking(bookings, nextId, today, req) # {}
            /\ \A out \in createBooking(bookings, nextId, today, req) :
                  /\ out.status = 409
                  /\ out.bookings = bookings
                  /\ \E s \in bookings :
                        /\ Active(s) /\ SameRoom(s, req) /\ Intersects(s, req)
                        /\ out.details.bookingNo = s.bookingNo
                        /\ out.details.checkInDate = s.checkInDate
                        /\ out.details.checkOutDate = s.checkOutDate
                        /\ out.details.guestName = s.fullName

\* C2's case: a create request has just been answered 409 with the details of
\* a stored booking that is not cancelled.
C2_Witness ==
    /\ resp.op = "create" /\ resp.status = 409
    /\ \E s \in bookings :
          /\ Active(s)
          /\ resp.details.bookingNo = s.bookingNo
          /\ resp.details.checkInDate = s.checkInDate
          /\ resp.details.checkOutDate = s.checkOutDate

\* C3: a create request is never answered 409 when every stored, not cancelled
\* booking on its room ends on or before its check-in or begins on or after its
\* check-out; bookings of another hotel, room or category do not count.
C3_NoFalseConflict ==
    \A req \in LedgerCreates :
        (\A a \in bookings :
            (Active(a) /\ SameRoom(a, req)) =>
                (a.checkOutDate <= req.checkInDate \/ req.checkOutDate <= a.checkInDate)) =>
            \A out \in createBooking(bookings, nextId, today, req) : out.status # 409

\* C3's case: the booking just created begins on the day another booking of
\* the same room ends, and a booking that differs from it only in the room, the
\* hotel or the category may share its dates.
C3_Witness ==
    /\ resp.op = "create" /\ resp.status = 200
    /\ \E a \in bookings : \E b \in bookings :
          /\ b._id = resp.id /\ a._id # b._id
          /\ Active(a) /\ Active(b) /\ SameRoom(a, b)
          /\ a.checkOutDate = b.checkInDate
          /\ a.checkInDate < a.checkOutDate /\ b.checkInDate < b.checkOutDate

\* C4: once a booking A is cancelled, a create request for A's room with
\* exactly A's dates (and no reference) is answered 200 and stored, provided
\* no booking that is not cancelled overlaps it on that room.
C4_RebookAfterCancel ==
    \A a \in bookings :
        ~Active(a) =>
            \A req \in LedgerCreates :
                ( /\ SameRoom(a, req)
                  /\ req.checkInDate = a.checkInDate /\ req.checkOutDate = a.checkOutDate
                  /\ req.reference = NoBookingNo
                  /\ ~\E o \in bookings : Active(o) /\ SameRoom(o, req) /\ Intersects(o, req) )
                => \A out \in createBooking(bookings, nextId, today, req) :
                      /\ out.status = 200
                      /\ \E b \in out.bookings \ bookings :
                            /\ SameRoom(b, req) /\ Active(b)
                            /\ b.checkInDate = req.checkInDate
                            /\ b.checkOutDate = req.checkOutDate

\* C7: every stored booking has checkOutDate > checkInDate.
C7_CheckOutAfterCheckIn ==
    \A b \in bookings : b.checkOutDate > b.checkInDate

\* C6: every stored booking has duePayment = max(0, totalBill - advancePayment)
\* after a create and after every update that sets totalBill or advancePayment
\* (SpecBilling sends no other update).
C6_DuePaymentDerived ==
    \A b \in bookings : b.duePayment = Max(0, b.totalBill - b.advancePayment)
\* C5: under interleaved creates two stored bookings that are not cancelled can
\* overlap on one room, and they do so only through the race: the overlap
\* check of the one written later ran before the other was written.
C5_OverlapOnlyByRace ==
    \A a \in bookings : \A b \in bookings :
        (a._id < b._id /\ Active(a) /\ Active(b) /\ SameRoom(a, b) /\ Intersects(a, b))
            => a._id \notin seenAtCheck[b._id]

\* C5's case: two stored bookings that are not cancelled overlap on one room.
C5_Witness ==
    \E a \in bookings : \E b \in bookings :
        /\ a._id < b._id /\ Active(a) /\ Active(b) /\ SameRoom(a, b) /\ Intersects(a, b)
        /\ a._id \notin seenAtCheck[b._id]
TotalRoomsOf(h) ==
    Cardinality({<<i, j>> \in (1 .. MaxOid + 1) \X (1 .. MaxOid + 1) :
        i <= Len(h.roomCategories) /\ j <= Len(h.roomCategories[i].roomNumbers)})
AvailableRoomsOf(h) ==
    Cardinality({<<i, j>> \in (1 .. MaxOid + 1) \X (1 .. MaxOid + 1) :
        /\ i <= Len(h.roomCategories) /\ j <= Len(h.roomCategories[i].roomNumbers)
        /\ h.roomCategories[i].roomNumbers[j].status = "available"})

\* C8: in every stored hotel, totalRooms is the number of rooms across all
\* categories and availableRooms the number of those whose status is
\* "available".
C8_RoomCounts ==
    \A h \in hotels :
        h.totalRooms = TotalRoomsOf(h) /\ h.availableRooms = AvailableRoomsOf(h)

\* C9: no two categories of a hotel have the same name, and no two rooms of one
\* category have the same name.
C9_UniqueNames ==
    \A h \in hotels :
        /\ \A i, j \in 1 .. Len(h.roomCategories) :
              h.roomCategories[i].name = h.roomCategories[j].name => i = j
        /\ \A c \in 1 .. Len(h.roomCategories) :
              \A i, j \in 1 .. Len(h.roomCategories[c].roomNumbers) :
                  h.roomCategories[c].roomNumbers[i].name =
                      h.roomCategories[c].roomNumbers[j].name => i = j
\* C10: addCategory with a name a category of the hotel already has, and
\* addRoom with a name a room of the category already has, are answered 409
\* and leave the collection as it was.
C10_DuplicateNameConflict ==
    \A h \in hotels :
        /\ \A data \in CategoryBodies :
              (\E i \in 1 .. Len(h.roomCategories) : h.roomCategories[i].name = data.name)
                  => addCategory(hotels, nextOid, h.hotelID, data) = {HOutcome(409, hotels)}
        /\ \A c \in 1 .. Len(h.roomCategories) : \A data \in RoomBodies :
              (\E j \in 1 .. Len(h.roomCategories[c].roomNumbers) :
                    h.roomCategories[c].roomNumbers[j].name = data.name)
                  => addRoom(hotels, nextOid, h.hotelID, h.roomCategories[c]._id, data)
                         = {HOutcome(409, hotels)}

\* C10's case: addRoom has just been answered 409 on a hotel that has a room.
C10_Witness ==
    /\ hresp.op = "addRoom" /\ hresp.status = 409
    /\ \E h \in hotels : h.totalRooms >= 1

StoredOids(h) ==
    {h.roomCategories[i]._id : i \in 1 .. Len(h.roomCategories)}
        \cup {r._id : r \in StoredRooms(h)}

C12_GeneratedNumberFresh ==
    \A b \in bookings : generateBookingNo(bookings, today) # b.bookingNo

\* C13: successive successful creates are given strictly increasing serial
\* numbers beginning with 1, so the n-th of them (the one with the n-th id)
\* has a serialNo of at least n, whatever was cancelled or deleted before.
C13_SerialNoIncreasing ==
    \A b \in bookings : b.serialNo >= b._id

\* C14: two creates that both ran the sequence generators on the collection
\* as it still is (no write has landed since either was checked) hold the
\* same serialNo and the same bookingNo.
C14_SameNumbers ==
    \A c \in Clients : \A d \in Clients :
        (/\ inflight[c].pc = "numbered" /\ inflight[d].pc = "numbered"
         /\ inflight[c].seen = {b._id : b \in bookings}
         /\ inflight[d].seen = {b._id : b \in bookings})
        => /\ inflight[c].serialNo = inflight[d].serialNo
           /\ inflight[c].bookingNo = inflight[d].bookingNo

\* C14's case: two creates for different rooms are both past the generators,
\* neither written, with the same numbers.
C14_Witness ==
    \E c \in Clients : \E d \in Clients :
        /\ c # d
        /\ inflight[c].pc = "numbered" /\ inflight[d].pc = "numbered"
        /\ inflight[c].req.hotelID # inflight[d].req.hotelID
        /\ inflight[c].seen = {b._id : b \in bookings}
        /\ inflight[d].seen = {b._id : b \in bookings}
        /\ inflight[c].serialNo = inflight[d].serialNo
        /\ inflight[c].bookingNo = inflight[d].bookingNo

\* C15: a create that conflicts with nothing and whose reference is the
\* bookingNo of a stored booking is answered 200 and stored with that
\* bookingNo, a second booking under the number.
C15_ReferenceAdopted ==
    \A req \in LedgerCreates :
        ( /\ \E b \in bookings : b.bookingNo = req.reference
          /\ req.checkInDate < req.checkOutDate
          /\ ~\E o \in bookings : Active(o) /\ SameRoom(o, req) /\ Intersects(o, req) )
        => \A out \in createBooking(bookings, nextId, today, req) :
              /\ out.status = 200
              /\ \E n \in out.bookings \ bookings : n.bookingNo = req.reference

\* The stay an update of the dates asks for: the dates of the body over the
\* stored ones.
NewStay(b, data) ==
    [checkInDate |-> IF data.checkInDate # 0 THEN data.checkInDate ELSE b.checkInDate,
     checkOutDate |-> IF data.checkOutDate # 0 THEN data.checkOutDate ELSE b.checkOutDate]

DatesOnly(data) ==
    /\ data.checkInDate # 0 \/ data.checkOutDate # 0
    /\ data.hotelID = 0 /\ data.roomNumberID = "" /\ data.roomCategoryID = ""

\* C16: an update of the dates of an active booking to a stay that overlaps
\* the booking's own current stay, and the stay of no other booking of the
\* room that is not cancelled, is never answered 409.
C16_SelfExcluded ==
    \A b \in bookings : \A data \in LedgerUpdates :
        ( /\ Active(b) /\ DatesOnly(data)
          /\ Intersects(b, NewStay(b, data))
          /\ ~\E o \in bookings \ {b} :
                Active(o) /\ SameRoom(o, b) /\ Intersects(o, NewStay(b, data)) )
        => \A out \in updateBooking(bookings, b._id, data) : out.status # 409

\* C16's case: a booking has just been updated with success, and a change of
\* its dates to a stay overlapping its own is accepted.
C16_Witness ==
    /\ resp.op = "update" /\ resp.status = 200
    /\ \E b \in bookings : \E data \in LedgerUpdates :
          /\ b._id = resp.id /\ Active(b) /\ DatesOnly(data)
          /\ NewStay(b, data) # [checkInDate |-> b.checkInDate,
                                 checkOutDate |-> b.checkOutDate]
          /\ Intersects(b, NewStay(b, data))
          /\ \E out \in updateBooking(bookings, b._id, data) : out.status = 200

\* The room and the stay an update asks for: each field of the body over the
\* stored one.
Merged(b, data) ==
    [hotelID |-> IF data.hotelID # 0 THEN data.hotelID ELSE b.hotelID,
     roomNumberID |-> IF data.roomNumberID # "" THEN data.roomNumberID ELSE b.roomNumberID,
     roomCategoryID |-> IF data.roomCategoryID # "" THEN data.roomCategoryID ELSE b.roomCategoryID,
     checkInDate |-> IF data.checkInDate # 0 THEN data.checkInDate ELSE b.checkInDate,
     checkOutDate |-> IF data.checkOutDate # 0 THEN data.checkOutDate ELSE b.checkOutDate]

TouchesStay(data) ==
    \/ data.checkInDate # 0 \/ data.checkOutDate # 0
    \/ data.hotelID # 0 \/ data.roomNumberID # "" \/ data.roomCategoryID # ""

Blockers(b, data) ==
    {o \in bookings \ {b} :
        Active(o) /\ SameRoom(o, Merged(b, data)) /\ Intersects(o, Merged(b, data))}

\* C17: an update whose body holds any of checkInDate, checkOutDate, hotelID,
\* roomNumberID, roomCategoryID is checked against the merged values: when
\* another booking that is not cancelled is on the merged room and overlaps
\* the merged stay, the answer is 409 with the details of such a booking and
\* nothing stored changes.
C17_UpdateConflict ==
    \A b \in bookings : \A data \in LedgerUpdates :
        (TouchesStay(data) /\ Blockers(b, data) # {})
        => \A out \in updateBooking(bookings, b._id, data) :
              /\ out.status = 409
              /\ out.bookings = bookings
              /\ \E o \in Blockers(b, data) : out.details = ConflictDetails(o)

\* C17's case: an update has just been answered 409 with the details of
\* another active booking, and the booking it named is stored.
C17_Witness ==
    /\ resp.op = "update" /\ resp.status = 409
    /\ \E b \in bookings : \E o \in bookings \ {b} :
          /\ b._id = resp.id /\ Active(o)
          /\ resp.details = ConflictDetails(o)
          /\ \E data \in LedgerUpdates : TouchesStay(data) /\ o \in Blockers(b, data)

CancelFields == {"statusID", "canceledBy", "reason"}

\* C18: cancelling a stored booking answers 200, sets its statusID to 255 and
\* records canceledBy and reason; the row stays stored with every other field
\* as it was and no other booking changes.  Cancelling an id that is not
\* stored answers 404 and changes nothing.
C18_CancelFrame ==
    \A id \in BookingIds :
        LET out == updateStatusID(bookings, id, "staff", "no-show")
        IN  IF \E b \in bookings : b._id = id
            THEN LET b == CHOOSE x \in bookings : x._id = id
                 IN  /\ out.status = 200
                     /\ \A o \in bookings \ {b} : o \in out.bookings
                     /\ Cardinality(out.bookings) = Cardinality(bookings)
                     /\ \E c \in out.bookings :
                           /\ c._id = id
                           /\ c.statusID = 255
                           /\ c.canceledBy = "staff" /\ c.reason = "no-show"
                           /\ DOMAIN c = DOMAIN b
                           /\ \A f \in DOMAIN b \ CancelFields : c[f] = b[f]
            ELSE out.status = 404 /\ out.bookings = bookings

\* C18's case: a cancel has just been answered 200, the cancelled row is
\* stored beside another booking.
C18_Witness ==
    /\ resp.op = "cancel" /\ resp.status = 200
    /\ \E b \in bookings :
          /\ b._id = resp.id /\ b.statusID = 255
          /\ b.canceledBy = "staff" /\ b.reason = "no-show"
          /\ \E o \in bookings : o._id # b._id

\* C19: whatever hotels, categories and rooms were created and updated, with
\* uploaded files or with URL strings in the body, every stored images list
\* of a hotel, of a category and of a room holds at most three entries.
C19_ImagesAtMostThree ==
    \A h \in hotels :
        /\ Len(h.images) <= 3
        /\ \A c \in 1 .. Len(h.roomCategories) :
              /\ Len(h.roomCategories[c].images) <= 3
              /\ \A r \in 1 .. Len(h.roomCategories[c].roomNumbers) :
                    Len(h.roomCategories[c].roomNumbers[r].images) <= 3

\* The event each kind of mutation is documented to emit.
C20_EventOf ==
    [createHotel |-> "hotel:created", updateHotel |-> "hotel:updated",
     deleteHotel |-> "hotel:deleted", addCategory |-> "hotel:category:added",
     updateCategory |-> "hotel:category:updated", deleteCategory |-> "hotel:category:deleted",
     addRoom |-> "hotel:room:added", updateRoom |-> "hotel:room:updated",
     deleteRoom |-> "hotel:room:deleted"]

Emits(steps) == {i \in 1 .. Len(steps) : steps[i].step = "emit"}

\* C20: a hotel, category or room mutation that succeeds emits its hotel:*
\* event after the write and before the success response, which is its last
\* step; one that ends in 404, 409 or a failed save emits nothing.
C20_EmitAfterCommit ==
    hresp.op \in DOMAIN C20_EventOf =>
        LET steps == hresp.steps
        IN  IF hresp.status \in {200, 201}
            THEN /\ Emits(steps) # {}
                 /\ steps[Len(steps)] = Step("respond", "", 0, hresp.status)
                 /\ \A i \in Emits(steps) :
                       /\ steps[i].event = C20_EventOf[hresp.op]
                       /\ \E w \in 1 .. i - 1 : steps[w].step = "write"
                       /\ \A r \in 1 .. Len(steps) : steps[r].step = "respond" => i < r
            ELSE /\ Emits(steps) = {}
                 /\ \A i \in 1 .. Len(steps) : steps[i].step # "write"

\* C20's case: a room has just been added and hotel:room:added emitted to
\* every client and to the room of the hotel.
C20_Witness ==
    /\ hresp.op = "addRoom" /\ hresp.status = 201
    /\ \E h \in hotels : \E c \in 1 .. Len(h.roomCategories) :
          h.roomCategories[c].roomNumbers # <<>>
    /\ \E i, j \in Emits(hresp.steps) :
          /\ i < j
          /\ hresp.steps[i].event = "hotel:room:added" /\ hresp.steps[i].room = 0
          /\ hresp.steps[j].event = "hotel:room:added" /\ hresp.steps[j].room # 0

\* The event each ledger operation is documented to emit.
C21_EventOf ==
    [create |-> "booking:created", update |-> "booking:updated",
     cancel |-> "booking:canceled", delete |-> "booking:deleted"]

\* C21: a booking create, update, cancel or delete that was committed has
\* emitted its booking:* event.
C21_BookingEventEmitted ==
    (resp.op \in DOMAIN C21_EventOf /\ resp.status \in {200, 201})
    => \E i \in 1 .. Len(resp.steps) :
          /\ resp.steps[i].step = "emit"
          /\ resp.steps[i].event = C21_EventOf[resp.op]

\* The emit steps that reach a connected socket which has joined the rooms
\* hotel:<h>, h in rooms: io.emit reaches every socket, io.to(room).emit
\* the sockets of the room.
Delivered(steps, rooms) ==
    {i \in Emits(steps) : steps[i].room = 0 \/ steps[i].room \in rooms}

\* C22: for a committed mutation every connected subscriber, whatever hotel
\* rooms it has joined, is sent the event at most once.
C22_AtMostOnce ==
    \A rooms \in SUBSET HotelParams : Cardinality(Delivered(hresp.steps, rooms)) <= 1

\* A handler that got as far as the save and was refused there answers 400
\* and leaves the hotels as they were.
Refused400(outs) ==
    \A out \in outs :
        out.status \notin {404, 409} => out.status = 400 /\ out.hotels = hotels

\* C23: addCategory, updateCategory, addRoom and updateRoom whose save is
\* rejected by a schema violation are answered with a validation failure
\* (400), not with an internal error, and the stored hotel is unchanged.
C23_SchemaViolation400 ==
    \A id \in HotelParams, cid \in Oids :
        /\ \A body \in {b \in SchemaCategoryBodies : b.adults = 0} :
              /\ Refused400(addCategory(hotels, nextOid, id, body))
              /\ Refused400(updateCategory(hotels, id, cid, body))
        /\ \A body \in {b \in SchemaRoomBodies : b.children = -2} :
              /\ Refused400(addRoom(hotels, nextOid, id, cid, body))
              /\ \A rid \in Oids : Refused400(updateRoom(hotels, id, cid, rid, body))

\* The document a create request asks the store to insert.
Inserted(req) ==
    NewBooking(nextId, req, ChooseBookingNo(bookings, today, req.reference),
               generateSerialNo(bookings), today)

\* The request reaches Booking.create with a valid document and the unique
\* index on bookingNo or on serialNo rejects the write.
RejectedAsDuplicate(req) ==
    /\ RequiredForOverlap(req) /\ DatesPresent(req)
    /\ checkBookingOverlap(bookings, req.hotelID, req.roomNumberID, req.roomCategoryID,
                           req.checkInDate, req.checkOutDate, 0) = {}
    /\ ValidateDocument(Inserted(req))
    /\ DuplicateKey(bookings, Inserted(req))

\* C24: a create whose write the store rejects because its bookingNo or
\* serialNo duplicates that of a stored booking is answered 409, and no
\* booking is added.
C24_DuplicateKey409 ==
    \A req \in LedgerCreates :
        RejectedAsDuplicate(req)
        => \A out \in createBooking(bookings, nextId, today, req) :
              out.status = 409 /\ out.bookings = bookings

\* The last two digits of the booking numbers stored for a day.
TwoDigitSerials(day) ==
    {b.bookingNo.serial % 100 : b \in {o \in bookings : o.bookingNo.prefix = day}}

\* C25: the number generateBookingNo returns is the day's prefix followed by
\* exactly two digits, which are 1 + the largest two-digit serial stored for
\* that day, wrapped to two digits when that serial is 99.
C25_TwoDigitSerial ==
    LET number == generateBookingNo(bookings, today)
        largest == IF TwoDigitSerials(today) = {} THEN 0
                   ELSE CHOOSE s \in TwoDigitSerials(today) :
                            \A t \in TwoDigitSerials(today) : t <= s
    IN  /\ number.prefix = today
        /\ number.serial \in 0 .. 99
        /\ number.serial = (largest + 1) % 100

\* The orders created on the day of o before o.
CreatedBefore(o) == {p \in orders : p.createdAt = o.createdAt /\ p._id < o._id}

\* C26: while every stored order was numbered by the count (orders being
\* soft-deleted only), the stored orders have pairwise distinct order
\* numbers, each the date of its day with 1 + the number of orders created
\* that day before it; the next order is saved under a number no stored
\* order has; and saving a numbered order again keeps its number.
C26_OrderNumbers ==
    (\A o \in orders : o.counted) =>
        /\ \A o, p \in orders : o._id # p._id => o.orderNumber # p.orderNumber
        /\ \A o \in orders :
              o.orderNumber = [date |-> DateStr(o.createdAt, east),
                               n |-> 1 + Cardinality(CreatedBefore(o))]
        /\ \A body \in {b \in OrderBodies : b.customerName # "" /\ b.hasItems} :
              LET out == createOrder(orders, Cardinality(orders) + 1, today, east,
                                     body, NoOrderNumber)
              IN  /\ out.status = 201
                  /\ \A o \in orders : o.orderNumber # out.orderNumber
        /\ \A o \in orders : \A stamp \in Stamps :
              PreSaveOrder(orders, o, today, east, Fallback(stamp, today, east)) = o

\* C26's case: two orders of one day, the first of them soft-deleted before
\* the second was just created, all orders numbered by the count.
C26_Witness ==
    /\ oresp.op = "createOrder" /\ oresp.status = 201
    /\ \A o \in orders : o.counted
    /\ \E o, p \in orders :
          /\ o.createdAt = p.createdAt /\ o._id < p._id
          /\ o.statusID = 255
          /\ p.orderNumber = oresp.orderNumber /\ p.orderNumber.n = 2

HotelIds(store) == {h.hotelID : h \in store}

\* The hotels a step creates.
Created == {h \in hotels' : h.hotelID \notin HotelIds(hotels)}

\* C27 as stated: every hotel created is given 1 + the largest stored
\* hotelID (1 when no hotel is stored), and that number was given to no
\* hotel created before, the deleted ones included.
C27_NextAfterLargestStored ==
    [][\A h \in Created :
          h.hotelID = getNextHotelID(hotels) /\ h.hotelID > hotelSeq]_vars

\* C27: every hotel created is given the next value of the hotelID sequence,
\* 1 + the number of hotels created before it, which is larger than the
\* hotelID of every hotel created before, the deleted ones included; the
\* sequence never steps back and every stored hotelID came out of it.
C27_SequenceNeverReused ==
    [][/\ hotelSeq' >= hotelSeq
       /\ \A h \in hotels' : h.hotelID \in 1 .. hotelSeq'
       /\ \A h \in Created : h.hotelID = hotelSeq + 1 /\ hotelSeq' = h.hotelID]_vars

\* C27's case: the first hotel was deleted and the hotel just created got
\* hotelID 2, although no hotel was stored when it was created.
C27_Witness ==
    /\ hresp.op = "createHotel" /\ hresp.status = 201
    /\ hotelSeq = 2
    /\ HotelIds(hotels) = {2}

\* C28: whatever the query parameters, a cancelled booking contributes to
\* no figure of the statistics: the answer is the one the handler gives for
\* the collection without its cancelled bookings.
C28_CancelledNeverCounted ==
    \A query \in StatsQueries :
        getBookingStats(bookings, today, query)
            = getBookingStats({b \in bookings : b.statusID # 255}, today, query)

\* C29: a step of the booking ledger (one that changes the Booking
\* collection or its answer) leaves every Hotel document as it was, rooms'
\* status, bookedDates and bookings and the hotel's totalRooms and
\* availableRooms included; a step of the hotel controller, the legacy
\* room-level updateBooking and deleteBookingDetails among them, leaves the
\* Booking collection as it was.
C29_LedgerAndRoomsApart ==
    [][/\ (bookings' # bookings \/ resp' # resp) => hotels' = hotels
       /\ (hotels' # hotels \/ hresp' # hresp) => bookings' = bookings]_vars

\* A ledger booking was just created for room r1 of hotel 1 while the room
\* of that hotel holds legacy dates and entries and is still available.
C29_Witness ==
    /\ resp.op = "create" /\ resp.status = 200
    /\ \E b \in bookings : b._id = resp.id /\ b.hotelID = 1
    /\ hresp.op \in {"updateBooking", "deleteBookingDetails"} /\ hresp.status = 200
    /\ \E h \in hotels :
          /\ h.hotelID = 1 /\ h.totalRooms = 1 /\ h.availableRooms = 1
          /\ \E room \in StoredRooms(h) : room.bookedDates # <<>> /\ room.bookings # <<>>

\* C30: under every interleaving of concurrent creates no two stored
\* bookings have the same serialNo, and a create that reaches its write with
\* a serialNo some stored booking already has is answered with an error and
\* stores nothing.
C30_SerialNoUnique ==
    [][/\ \A a \in bookings' : \A b \in bookings' :
              a.serialNo = b.serialNo => a._id = b._id
       /\ \A c \in Clients :
              (/\ inflight[c].pc = "numbered" /\ inflight'[c].pc = "idle"
               /\ \E b \in bookings : b.serialNo = inflight[c].serialNo)
              => /\ bookings' = bookings
                 /\ resp'.op = "create" /\ resp'.status >= 400]_vars

\* Two creates got the same serialNo from the empty collection; one was
\* stored with it, the other has just been refused and nothing of it is
\* stored.
C30_Witness ==
    /\ resp.op = "create" /\ resp.status = 400
    /\ \A c \in Clients : inflight[c].pc = "idle"
    /\ Cardinality(bookings) = 1
    /\ \A b \in bookings : b.serialNo = 1 /\ seenAtCheck[b._id] = {}

====
